---------------------------- MODULE Spec2Model ----------------------------
(***************************************************************************)
(* A model of docs/download_sources.py: the paper download pipeline.       *)
(*                                                                         *)
(* Text (URLs, DOIs, file names, checklist lines) is a sequence of tokens. *)
(* A token stands for a fixed run of characters; the separators the code's *)
(* regular expressions and substring tests look at ("/", "_", ".", ":",    *)
(* "[", "]", blanks, line ends) are tokens of their own, so a substring    *)
(* test of the code is a contiguous-subsequence test here.                 *)
(*                                                                         *)
(* The module holds several specifications over one set of variables:      *)
(*   SpecV     is_valid_pdf applied to files of every shape                *)
(*   SpecCL    update_checklist callers and a parse_checklist reader on    *)
(*             one checklist file                                          *)
(*   Spec      main(): the two thread pools over the rows of a checklist   *)
(*   SpecExc   main() with tasks that raise on the file system             *)
(*   SpecItem  one item through the fast chain and the browser attempt     *)
(***************************************************************************)
EXTENDS Integers, Sequences, FiniteSets, TLC

VARIABLES
    vfile,          \* SpecV: the file handed to is_valid_pdf
    vres,           \* SpecV: <<>> before the call, then <<b>>, b the BOOLEAN returned
    checklist,      \* the checklist file on disk: its text
    checklist_lock, \* threading.Lock: 0 when free, else the holder
    cl0,            \* SpecCL: the checklist text at the start (history)
    clTgt,          \* SpecCL: per caller, the index it marks
    clPc,           \* SpecCL: per caller, its position in update_checklist
    clLines,        \* SpecCL: per caller, the local `lines`
    clBuf,          \* SpecCL: per caller, text written to the file object, not yet on disk
    clRead,         \* SpecCL: <<>>, then <<rows>>: what the reader's parse_checklist returned
    opts,            \* Spec: the command line and what it meets: [skip_browser,
                     \*       playwright, checklist_exists]
    disk,            \* Spec: output_dir: file name -> content
    downloaded_dois, \* Spec: the dict of line 95: DOI -> item number
    doi_lock,        \* Spec: threading.Lock of line 96: 0 when free, else the item
                     \*       number of the task that holds it
    to_process,      \* Spec: main's list of <<idx, url>> (line 2444)
    pc,              \* Spec: per phase-1 task, its position in process_item_fast
    source,          \* Spec: per phase-1 task, the name its result carries
    seen,            \* Spec: per phase-1 task, downloaded_dois and the tasks that had
                     \*       returned a success when it started (history)
    fast_results,    \* Spec: main's list (line 2456)
    needs_browser,   \* Spec: main's list (line 2457)
    bpc,             \* Spec: per phase-2 task, its position in process_item_browser
    browser_results, \* Spec: main's list (line 2483)
    mainpc,          \* Spec: main's position
    report,          \* Spec: <<>>, then <<the summary main prints>>
    iurl,            \* SpecItem: the item's URL
    iplay,           \* SpecItem: PLAYWRIGHT_AVAILABLE
    ipc,             \* SpecItem: the position in process_item_fast / process_item_browser
    ik,              \* SpecItem: the number of the next fast strategy, 1..12
    ititle,          \* SpecItem: <<>> before get_paper_metadata, then <<found>>
    imeta,           \* SpecItem: the DOIs get_paper_metadata has asked CrossRef about,
                     \* each with the number of strategies called before
    icalls,          \* SpecItem: the strategies called so far, each with its result and
                     \*           with how it ended inside (history)
    ifile,           \* SpecItem: <<>>, or <<the content at the output path>>
    ibr,             \* SpecItem: the download branches the browser attempt has taken
    fcar,            \* SpecFn: the URL of a row up to its DOI
    fdoi,            \* SpecFn: the DOI the URL carries
    fsuf,            \* SpecFn: what follows the DOI in the URL
    fidx,            \* SpecFn: the item number of the row
    fpc,             \* SpecFn: the position: "start", "keyed", "saved", "scanned"
    fkey,            \* SpecFn: <<>>, then <<the doi process_item_fast computed>>
    fname,           \* SpecFn: <<>>, then the file name the artifact was saved under
    freg,            \* SpecFn: <<>>, then the dict the next start builds from the files
    rvis,            \* SpecRank: vision_result, what the vision model said of the button
    relems,          \* SpecRank: page.query_selector_all('a, button'), in page order
    ri,              \* SpecRank: the number of the element the loop is at
    rcands,          \* SpecRank: the list `candidates`
    rout,            \* SpecRank: <<>>, then <<the list returned>>
    rpc,             \* SpecRank: "loop", then "returned"
    aonly,           \* SpecBrowser: the global screenshots_only (line 99)
    apagedoi,        \* SpecBrowser: the DOI in the address of the item's page, or <<>>
    ashots0,         \* SpecBrowser: the screenshots of the item in output_dir at the start
    ashots,          \* SpecBrowser: the screenshots of the item in output_dir
    apc,             \* SpecBrowser: the position in process_item_browser
    aregion,         \* SpecBrowser: the screenshot the attempt is at, "top" or "bottom"
    acands,          \* SpecBrowser: vision_candidates[:5] of the region
    aci,             \* SpecBrowser: the number of the candidate the loop is at
    astep,           \* SpecBrowser: the number of the next step on that candidate
    alog,            \* SpecBrowser: what the attempt has called so far (history)
    ares,            \* SpecBrowser: <<>>, then what process_item_browser returned
    lclock,          \* SpecRate: rate_time.time(), in tenths of a second
    last_api_call,   \* SpecRate: the module-level dict of line 514
    lpc,             \* SpecRate: per worker, its position in the rate-limiting block
    lapi,            \* SpecRate: per worker, the key of the API it is calling
    lcur,            \* SpecRate: per worker, its local current_time
    lcalls,          \* SpecRate: per worker, the number of API calls it has begun
    llog,            \* SpecRate: the queries sent, each <<key, worker, time>> (history)
    umain,           \* SpecSubmit: main's position in the pool block of the phase
    uphase,          \* SpecSubmit: the phase, 1 or 2
    ulist,           \* SpecSubmit: the items of the phase: to_process, then needs_browser
    utask,           \* SpecSubmit: per item of the phase, the state of its future
    unb,             \* SpecSubmit: main's list needs_browser
    ulog,            \* SpecSubmit: what main has done: submissions and sleeps (history)
    grows,           \* SpecRange: the rows of the checklist, each <<index, box>>, in file order
    gstart,          \* SpecRange: args.start
    gend,            \* SpecRange: args.end, 0 for None
    gout,            \* SpecRange: <<>>, then <<the list to_process>>
    gpc,             \* SpecRange: "start", then "selected"
    klock,           \* SpecLock: the three threading.Lock objects: 0 when free, else the holder
    kpath,           \* SpecLock: per worker, the path its task takes through process_item_fast
    kprog,           \* SpecLock: per worker, the lock operations its task has still to do
    npage,           \* SpecViewer: the page a candidate's PDF href led to
    npc,             \* SpecViewer: position in the handling of that page
    nsel,            \* SpecViewer: index of the download selector being tried
    nlog,            \* SpecViewer: the recovery steps made, in order
    nres             \* SpecViewer: what the handling returned

varsV  == <<vfile, vres>>
varsCL == <<checklist, checklist_lock, cl0, clTgt, clPc, clLines, clBuf, clRead>>
varsCLidle == <<checklist_lock, cl0, clTgt, clPc, clLines, clBuf, clRead>>
varsS  == <<opts, disk, downloaded_dois, doi_lock, to_process, pc, source, seen, fast_results,
            needs_browser, bpc, browser_results, mainpc, report>>
varsI  == <<iurl, iplay, ipc, ik, ititle, imeta, icalls, ifile, ibr>>
varsF  == <<fcar, fdoi, fsuf, fidx, fpc, fkey, fname, freg>>
varsR  == <<rvis, relems, ri, rcands, rout, rpc>>
varsB  == <<aonly, apagedoi, ashots0, ashots, apc, aregion, acands, aci, astep, alog, ares>>
varsL  == <<lclock, last_api_call, lpc, lapi, lcur, lcalls, llog>>
varsU  == <<umain, uphase, ulist, utask, unb, ulog>>
varsG  == <<grows, gstart, gend, gout, gpc>>
varsK  == <<klock, kpath, kprog>>
varsN  == <<npage, npc, nsel, nlog, nres>>
varsY  == <<varsL, varsU, varsG, varsK, varsN>>
varsX  == <<varsF, varsR, varsB, varsY>>
vars   == <<varsV, varsCL, varsS, varsI, varsX>>

\* every group but one
restL  == <<varsV, varsCL, varsS, varsI, varsF, varsR, varsB, varsU, varsG, varsK, varsN>>
restU  == <<varsV, varsCL, varsS, varsI, varsF, varsR, varsB, varsL, varsG, varsK, varsN>>
restG  == <<varsV, varsCL, varsS, varsI, varsF, varsR, varsB, varsL, varsU, varsK, varsN>>
restK  == <<varsV, varsCL, varsS, varsI, varsF, varsR, varsB, varsL, varsU, varsG, varsN>>
restN  == <<varsV, varsCL, varsS, varsI, varsF, varsR, varsB, varsL, varsU, varsG, varsK>>

---------------------------------------------------------------------------
(* Text helpers.                                                           *)

\* s[i..] starts with p   (re.match at position i / str.startswith)
IsPrefixAt(p, s, i) ==
    /\ i >= 1
    /\ i + Len(p) - 1 <= Len(s)
    /\ \A k \in 1..Len(p) : s[i + k - 1] = p[k]

\* Python's  p in s  for strings
Contains(s, p) == \E i \in 1..(Len(s) + 1) : IsPrefixAt(p, s, i)

\* str.endswith
EndsWith(s, p) == Len(p) <= Len(s) /\ IsPrefixAt(p, s, Len(s) - Len(p) + 1)

\* str.lower(), token by token: the upper-case tokens of the alphabet
Lower(t) ==
    CASE t = "PDF"      -> "pdf"
      [] t = "SI"       -> "si"
      [] t = "Suppinfo" -> "suppinfo"
      [] t = "X"        -> "x"
      [] t = "PMC"      -> "pmc"
      [] t = "Download" -> "download"
      [] t = "Cite"     -> "cite"
      [] OTHER          -> t

LowerStr(s) == [k \in 1..Len(s) |-> Lower(s[k])]

---------------------------------------------------------------------------
(* is_valid_pdf (download_sources.py 259-314).                             *)
(* A file is what the checks read of it: whether the path exists, its size *)
(* in bytes, its first bytes, the page count PyPDF2 reports (-1: PyPDF2    *)
(* raises, the file cannot be opened), and the base name of the path.      *)

MinSize == 50000

\* the markers of line 307
SuppMarkers ==
    { <<"supplem">>, <<"suppinfo">>, <<"si", "_">>, <<"_", "si", ".">>,
      <<"s001">>, <<"s002">> }

\* line 306-307: any(x in filename_lower for x in [...])
IsSupplementaryName(name) ==
    \E m \in SuppMarkers : Contains(LowerStr(name), m)

\* mutant: the size test of line 279 with the 100KB the docstring speaks of
is_valid_pdf_docsize(f, min_size) ==
    IF ~f.exists THEN FALSE
    ELSE IF f.size < 2 * min_size THEN FALSE
    ELSE IF f.header # "%PDF" THEN FALSE
    ELSE IF f.pages < 1 THEN FALSE
    ELSE IF IsSupplementaryName(f.name) THEN FALSE
    ELSE TRUE

\* the checks in the order the code makes them, each an early return
is_valid_pdf(f, min_size) ==
    IF ~f.exists THEN FALSE
    ELSE IF f.size < min_size THEN FALSE
    ELSE IF f.header # "%PDF" THEN FALSE
    ELSE IF f.pages < 1 THEN FALSE
    ELSE IF IsSupplementaryName(f.name) THEN FALSE
    ELSE TRUE

---------------------------------------------------------------------------
(* The checklist file (download_sources.py 148-178).                       *)

\* decimal numerals: str(index), f"{index:03d}" and int(...)
Str(i)   == <<"1", "2", "3", "4", "5">>[i]
Str03(i) == <<"001", "002", "003", "004", "005">>[i]
DigitTokens == {"1", "2", "3", "4", "5", "001", "002", "003", "004", "005",
                "10", "478", "1002", "1007", "1038", "2301", "00001",
                "10480223"}
IntOf(t) ==
    CASE t \in {"1", "001"} -> 1
      [] t \in {"2", "002"} -> 2
      [] t \in {"3", "003"} -> 3
      [] t \in {"4", "004"} -> 4
      [] t \in {"5", "005"} -> 5
      [] t = "10"           -> 10
      [] t = "478"          -> 478
      [] t = "1002"         -> 1002
      [] t = "1007"         -> 1007
      [] t = "1038"         -> 1038
      [] t = "2301"         -> 2301
      [] t = "10480223"     -> 10480223
      [] OTHER              -> 0

\* \s of the regular expressions and the characters str.strip() removes
WS == {" ", "LF", "CR", "CRLF"}

\* open(path, 'r'): universal newlines, "\r\n" and "\r" are read as "\n"
ReadText(text) ==
    [k \in 1..Len(text) |-> IF text[k] \in {"CRLF", "CR"} THEN "LF" ELSE text[k]]

\* open(path, 'w') on POSIX: "\n" is written as os.linesep, which is "\n"
WriteText(text) == text

\* splitting into lines, each keeping its "\n"
RECURSIVE SplitLines(_)
SplitLines(text) ==
    IF text = <<>> THEN <<>>
    ELSE LET nl == {k \in 1..Len(text) : text[k] = "LF"} IN
         IF nl = {} THEN <<text>>
         ELSE LET k == CHOOSE x \in nl : \A y \in nl : x <= y IN
              <<SubSeq(text, 1, k)>> \o SplitLines(SubSeq(text, k + 1, Len(text)))

\* f.readlines() / for line in f
readlines(text) == SplitLines(ReadText(text))

RECURSIVE Concat(_)
Concat(ls) == IF ls = <<>> THEN <<>> ELSE Head(ls) \o Concat(Tail(ls))

\* first position >= i that holds no blank (Len(s) + 1 when there is none)
RECURSIVE SkipWs(_, _)
SkipWs(s, i) == IF i <= Len(s) /\ s[i] \in WS THEN SkipWs(s, i + 1) ELSE i

\* last position <= i that holds no blank (0 when there is none)
RECURSIVE SkipWsBack(_, _)
SkipWsBack(s, i) == IF i >= 1 /\ s[i] \in WS THEN SkipWsBack(s, i - 1) ELSE i

\* str.strip()
Strip(s) == SubSeq(s, SkipWs(s, 1), SkipWsBack(s, Len(s)))

At(s, i) == IF i >= 1 /\ i <= Len(s) THEN s[i] ELSE "EOS"

\* line 172, 176: re.compile(rf'^{index}\.\s*\[\s*\]').match(line.strip())
MatchesEmptyBox(line, index) ==
    LET s == Strip(line)
        a == SkipWs(s, 3)
        b == SkipWs(s, a + 1)
    IN  /\ At(s, 1) = Str(index)
        /\ At(s, 2) = "."
        /\ At(s, a) = "["
        /\ At(s, b) = "]"

\* the leftmost match of \[\s*\] in line: <<first, last>>, or <<0, 0>>
FirstEmptyBox(line) ==
    LET hits == {i \in 1..Len(line) :
                    line[i] = "[" /\ At(line, SkipWs(line, i + 1)) = "]"}
    IN  IF hits = {} THEN <<0, 0>>
        ELSE LET i == CHOOSE x \in hits : \A y \in hits : x <= y
             IN  <<i, SkipWs(line, i + 1)>>

\* line 177: re.sub(r'\[\s*\]', '[x]', line, count=1)
SubEmptyBox(line) ==
    LET m == FirstEmptyBox(line) IN
    IF m[1] = 0 THEN line
    ELSE SubSeq(line, 1, m[1] - 1) \o <<"[", "x", "]">>
            \o SubSeq(line, m[2] + 1, Len(line))

\* the loop writing every checked row back with an empty box
MarkLine_uncheck(line, index) ==
    IF MatchesEmptyBox(line, index) THEN SubEmptyBox(line)
    ELSE LET xs == {k \in 2..(Len(line) - 1) :
                      line[k - 1] = "[" /\ line[k] = "x" /\ line[k + 1] = "]"}
         IN  IF xs = {} THEN line
             ELSE LET k == CHOOSE x \in xs : \A y \in xs : x <= y
                  IN  SubSeq(line, 1, k - 1) \o SubSeq(line, k + 1, Len(line))

\* lines 175-178: what the loop writes for one line
MarkLine(line, index) ==
    IF MatchesEmptyBox(line, index) THEN SubEmptyBox(line) ELSE line

\* lines 152-161: one line of the checklist parsed; <<>> when it is no row
ParseLine(line) ==
    LET s == Strip(line)
        a == SkipWs(s, 3)
        b == SkipWs(s, a + 1)
        c == IF Lower(At(s, b)) = "x" THEN b + 1 ELSE b
        d == SkipWs(s, c)
        e == SkipWs(s, d + 1)
        ends == {k \in (e + 4)..Len(s) : At(s, k + 1) \in WS \cup {"EOS"}}
    IN  IF /\ At(s, 1) \in DigitTokens
           /\ At(s, 2) = "."
           /\ At(s, a) = "["
           /\ At(s, d) = "]"
           /\ Lower(At(s, e)) \in {"http", "https"}
           /\ At(s, e + 1) = ":" /\ At(s, e + 2) = "/" /\ At(s, e + 3) = "/"
           /\ At(s, e + 4) \notin WS \cup {"EOS"}
        THEN <<[index   |-> IntOf(s[1]),
                checked |-> Lower(At(s, b)) = "x",
                url     |-> SubSeq(s, e, CHOOSE k \in ends : \A y \in ends : k <= y)]>>
        ELSE <<>>

RECURSIVE ParseLines(_)
ParseLines(ls) ==
    IF ls = <<>> THEN <<>> ELSE ParseLine(Head(ls)) \o ParseLines(Tail(ls))

\* parse_checklist: the rows of the file, in file order
parse_checklist(text) == ParseLines(readlines(text))

\* update_checklist as a whole: the text it leaves on disk
UpdatedText(text, index) ==
    LET ls == readlines(text) IN
    WriteText(Concat([k \in 1..Len(ls) |-> MarkLine(ls[k], index)]))

---------------------------------------------------------------------------
(* Identifiers and file names (download_sources.py 181-256, 317-329).      *)

\* the tokens that are separators; every other token is a run of letters,
\* digits and hyphens
Separators ==
    {"/", "_", ".", ":", "?", "=", "&", "[", "]", "%"} \cup WS

IsWord(t) == t \notin Separators \cup {"EOS"}

\* the number of digits of a \d+ token, 0 for any other token
DigitLen(t) ==
    CASE t \in {"1", "2", "3", "4", "5"}                  -> 1
      [] t = "10"                                         -> 2
      [] t \in {"001", "002", "003", "004", "005", "478"} -> 3
      [] t \in {"1002", "1007", "1038", "2301"}           -> 4
      [] t = "00001"                                      -> 5
      [] t = "10480223"                                   -> 8
      [] OTHER                                            -> 0

\* the number of characters of a token, counted up to 3
CharLen3(t) ==
    IF t \in (Separators \ {"CRLF"}) \cup {"a", "b", "x", "X"} \/ DigitLen(t) = 1 THEN 1
    ELSE IF t \in {"CRLF", "10", "si", "SI"} THEN 2
    ELSE 3

\* the last position of the longest run of tokens of S from i on (i - 1: none)
RunIn(s, i, S) ==
    LET ok == {k \in (i - 1)..Len(s) : \A j \in i..k : s[j] \in S}
    IN  CHOOSE k \in ok : \A y \in ok : y <= k

\* the same for the tokens that are not in S
RunNotIn(s, i, S) ==
    LET ok == {k \in (i - 1)..Len(s) : \A j \in i..k : s[j] \notin S}
    IN  CHOOSE k \in ok : \A y \in ok : y <= k

Min(S) == CHOOSE x \in S : \A y \in S : x <= y

\* str.replace('/', '_')
SlashToUnderscore(s) == [k \in 1..Len(s) |-> IF s[k] = "/" THEN "_" ELSE s[k]]

\* re.sub(suffix + '$', '', doi, flags=re.IGNORECASE)
StripSuffix(s, suffix) ==
    IF EndsWith(LowerStr(s), suffix) THEN SubSeq(s, 1, Len(s) - Len(suffix)) ELSE s

\* 10\.\d{4,}/ at position i of s
DoiPrefixAt(s, i) ==
    /\ At(s, i) = "10" /\ At(s, i + 1) = "."
    /\ DigitLen(At(s, i + 2)) >= 4
    /\ At(s, i + 3) = "/"

\* the end of a match of  10\.\d{4,}/[^\s/]+  at i, 0 when there is none
DoiOneSegEnd(s, i) ==
    LET e == RunNotIn(s, i + 4, WS \cup {"/"}) IN
    IF DoiPrefixAt(s, i) /\ e >= i + 4 THEN e ELSE 0

\* the end of a match of  10\.\d{4,}/[^\s/]+/[^\s/]+  at i, 0 when none
DoiTwoSegEnd(s, i) ==
    LET e1 == DoiOneSegEnd(s, i)
        e2 == RunNotIn(s, e1 + 2, WS \cup {"/"})
    IN  IF e1 > 0 /\ At(s, e1 + 1) = "/" /\ e2 >= e1 + 2 THEN e2 ELSE 0

\* lines 190-197: the first pattern that matches, at its leftmost match;
\* the text of group 1, <<>> when no pattern matches
DoiMatch(s) ==
    LET p1 == {i \in 1..Len(s) :
                  /\ DoiTwoSegEnd(s, i) > 0
                  /\ \E d \in 1..(i - 2) :
                        /\ Lower(s[d]) = "doi"
                        /\ \A j \in (d + 1)..(i - 1) : s[j] \in {":", "/"}}
        p2 == {i \in 1..Len(s) : DoiTwoSegEnd(s, i) > 0}
        p3 == {i \in 1..Len(s) : DoiOneSegEnd(s, i) > 0}
    IN  IF p1 # {} THEN SubSeq(s, Min(p1), DoiTwoSegEnd(s, Min(p1)))
        ELSE IF p2 # {} THEN SubSeq(s, Min(p2), DoiTwoSegEnd(s, Min(p2)))
        ELSE IF p3 # {} THEN SubSeq(s, Min(p3), DoiOneSegEnd(s, Min(p3)))
        ELSE <<>>

\* lines 183-186: nature\.com/articles/([a-z0-9\-]+), the start of group 1
NatureMatches(s) ==
    {i \in 7..Len(s) :
        /\ Lower(s[i - 6]) = "nature" /\ s[i - 5] = "." /\ Lower(s[i - 4]) = "com"
        /\ s[i - 3] = "/" /\ Lower(s[i - 2]) = "articles" /\ s[i - 1] = "/"
        /\ IsWord(s[i])}

\* extract_doi_from_url; <<>> stands for None
extract_doi_from_url(url) ==
    IF NatureMatches(url) # {}
    THEN LET i == Min(NatureMatches(url)) IN
         <<"10", ".", "1038", "/">> \o SubSeq(url, i, RunNotIn(url, i, Separators))
    ELSE StripSuffix(StripSuffix(StripSuffix(StripSuffix(DoiMatch(url),
            <<".", "pdf">>), <<"/", "pdf">>), <<"/", "full">>), <<"/", "abstract">>)

\* lines 216-218: pmc\.ncbi\.nlm\.nih\.gov/articles/(PMC\d+)
PmcMatches(s) ==
    {i \in 1..Len(s) :
        /\ IsPrefixAt(<<"pmc", ".", "ncbi", ".", "nlm", ".", "nih", ".", "gov",
                        "/", "articles", "/">>, LowerStr(s), i)
        /\ Lower(At(s, i + 12)) = "pmc" /\ DigitLen(At(s, i + 13)) > 0}

\* lines 221-223: ieeexplore\.ieee\.org/document/(\d+)
IeeeMatches(s) ==
    {i \in 1..Len(s) :
        /\ IsPrefixAt(<<"ieeexplore", ".", "ieee", ".", "org", "/", "document", "/">>,
                      LowerStr(s), i)
        /\ DigitLen(At(s, i + 8)) > 0}

\* lines 226, 428, 784: arxiv\.org/(?:abs|pdf)/(\d+\.\d+)
ArxivMatches(s) ==
    {i \in 1..Len(s) :
        /\ IsPrefixAt(<<"arxiv", ".", "org", "/">>, s, i)
        /\ At(s, i + 4) \in {"abs", "pdf"} /\ At(s, i + 5) = "/"
        /\ DigitLen(At(s, i + 6)) > 0 /\ At(s, i + 7) = "."
        /\ DigitLen(At(s, i + 8)) > 0}

\* lines 232-234: /article/([\d/]+)
ArticlePathMatches(s) ==
    {i \in 1..Len(s) :
        /\ IsPrefixAt(<<"/", "article", "/">>, s, i)
        /\ (DigitLen(At(s, i + 3)) > 0 \/ At(s, i + 3) = "/")}

\* url.rstrip('/')
RStripSlash(s) ==
    LET keep == {k \in 1..Len(s) : s[k] # "/"} IN
    IF keep = {} THEN <<>>
    ELSE SubSeq(s, 1, CHOOSE k \in keep : \A y \in keep : y <= k)

\* the text after the last "/" of s
AfterLastSlash(s) ==
    LET slashes == {k \in 1..Len(s) : s[k] = "/"} IN
    IF slashes = {} THEN s
    ELSE SubSeq(s, (CHOOSE k \in slashes : \A y \in slashes : y <= k) + 1, Len(s))

\* lines 237-243: the last part of the path, without query and extension
LastPart(url) ==
    LET part == AfterLastSlash(RStripSlash(url))
        q == {k \in 1..Len(part) : part[k] = "?"}
        noq == IF q = {} THEN part ELSE SubSeq(part, 1, Min(q) - 1)
    IN  IF part \in {<<"http", ":">>, <<"https", ":">>, <<"www", ".">>} THEN <<>>
        ELSE IF EndsWith(LowerStr(noq), <<".", "pdf">>) THEN SubSeq(noq, 1, Len(noq) - 2)
        ELSE IF EndsWith(LowerStr(noq), <<".", "html">>) THEN SubSeq(noq, 1, Len(noq) - 2)
        ELSE IF EndsWith(LowerStr(noq), <<".", "htm">>) THEN SubSeq(noq, 1, Len(noq) - 2)
        ELSE noq

RECURSIVE CharLenUpTo3(_)
CharLenUpTo3(s) ==
    IF s = <<>> THEN 0
    ELSE LET n == CharLen3(Head(s)) + CharLenUpTo3(Tail(s)) IN IF n > 3 THEN 3 ELSE n

\* extract_identifier_from_url; <<>> stands for None
extract_identifier_from_url(url) ==
    LET doi == extract_doi_from_url(url) IN
    IF doi # <<>> THEN SlashToUnderscore(doi)
    ELSE IF PmcMatches(url) # {}
    THEN SubSeq(url, Min(PmcMatches(url)) + 12, Min(PmcMatches(url)) + 13)
    ELSE IF IeeeMatches(url) # {}
    THEN <<url[Min(IeeeMatches(url)) + 8]>>
    ELSE IF ArxivMatches(url) # {}
    THEN SubSeq(url, Min(ArxivMatches(url)) + 6, Min(ArxivMatches(url)) + 8)
    ELSE IF ArticlePathMatches(url) # {}
    THEN LET i == Min(ArticlePathMatches(url)) + 3 IN
         SlashToUnderscore(SubSeq(url, i, RunIn(url, i, DigitTokens \cup {"/"})))
    ELSE IF CharLenUpTo3(LastPart(url)) > 2 THEN LastPart(url)
    ELSE <<>>

\* sanitize_filename: the text after the last "/", ".pdf" cut, every
\* character outside [\w\-.] replaced by "_" (at most 80 characters: the
\* names of the model are shorter)
sanitize_filename(url) ==
    LET name == StripSuffix(AfterLastSlash(url), <<".", "pdf">>)
    IN  [k \in 1..Len(name) |->
            IF IsWord(name[k]) \/ name[k] \in {".", "_"} THEN name[k] ELSE "_"]

\* get_filename
get_filename(url, item_index) ==
    LET identifier == extract_identifier_from_url(url) IN
    IF identifier # <<>>
    THEN <<"item", Str03(item_index), "_">> \o identifier \o <<".", "pdf">>
    ELSE IF sanitize_filename(url) # <<>>
    THEN <<"item", Str03(item_index), "_">> \o sanitize_filename(url) \o <<".", "pdf">>
    ELSE <<"item", Str03(item_index), ".", "pdf">>

---------------------------------------------------------------------------
(* SpecV: is_valid_pdf on files of every shape.                            *)

VSizes   == {3000, 49999, 50000, 9000000}
VHeaders == {"%PDF", "<htm"}
VPages   == {-1, 0, 1, 12}
VNames   ==
    { <<"item", "005", "_", "10", ".", "1002", "_", "abc", ".", "pdf">>,
      <<"item", "005", "_", "suppinfo", ".", "pdf">>,
      <<"item", "005", "_", "Suppinfo", ".", "PDF">>,
      <<"item", "005", "_", "10", ".", "1007", "_", "s001", "25", ".", "pdf">>,
      <<"paper", "_", "SI", ".", "pdf">> }

VFiles ==
    [exists : BOOLEAN, size : VSizes, header : VHeaders, pages : VPages,
     name : VNames]

\* the variables a specification does not use keep these values
IdleV  == vfile = <<>> /\ vres = <<>>
IdleCL ==
    /\ checklist = <<>> /\ checklist_lock = 0 /\ cl0 = <<>> /\ clTgt = <<>>
    /\ clPc = <<>> /\ clLines = <<>> /\ clBuf = <<>> /\ clRead = <<>>

IdleS ==
    /\ opts = <<>> /\ disk = <<>> /\ downloaded_dois = <<>> /\ doi_lock = 0
    /\ to_process = <<>>
    /\ pc = <<>> /\ source = <<>> /\ seen = <<>> /\ fast_results = <<>>
    /\ needs_browser = <<>> /\ bpc = <<>> /\ browser_results = <<>>
    /\ mainpc = "" /\ report = <<>>

IdleI ==
    /\ iurl = <<>> /\ iplay = FALSE /\ ipc = "" /\ ik = 0 /\ ititle = <<>> /\ imeta = <<>>
    /\ icalls = <<>> /\ ifile = <<>> /\ ibr = 0

IdleF ==
    /\ fcar = <<>> /\ fdoi = <<>> /\ fsuf = <<>> /\ fidx = 0 /\ fpc = ""
    /\ fkey = <<>> /\ fname = <<>> /\ freg = <<>>

IdleR ==
    /\ rvis = <<>> /\ relems = <<>> /\ ri = 0 /\ rcands = <<>> /\ rout = <<>> /\ rpc = ""

IdleB ==
    /\ aonly = FALSE /\ apagedoi = <<>> /\ ashots0 = {} /\ ashots = {} /\ apc = ""
    /\ aregion = "" /\ acands = <<>> /\ aci = 0 /\ astep = 0 /\ alog = <<>> /\ ares = <<>>

IdleL ==
    /\ lclock = 0 /\ last_api_call = <<>> /\ lpc = <<>> /\ lapi = <<>> /\ lcur = <<>>
    /\ lcalls = <<>> /\ llog = <<>>

IdleU ==
    /\ umain = "" /\ uphase = 0 /\ ulist = <<>> /\ utask = <<>> /\ unb = <<>> /\ ulog = <<>>

IdleG ==
    /\ grows = <<>> /\ gstart = 0 /\ gend = 0 /\ gout = <<>> /\ gpc = ""

IdleK ==
    /\ klock = <<>> /\ kpath = <<>> /\ kprog = <<>>

IdleN ==
    /\ npage = <<>> /\ npc = "" /\ nsel = 0 /\ nlog = <<>> /\ nres = <<>>

IdleY == IdleL /\ IdleU /\ IdleG /\ IdleK /\ IdleN

IdleOld == IdleV /\ IdleCL /\ IdleS /\ IdleI /\ IdleF /\ IdleR /\ IdleB
IdleRestL == IdleOld /\ IdleU /\ IdleG /\ IdleK /\ IdleN
IdleRestU == IdleOld /\ IdleL /\ IdleG /\ IdleK /\ IdleN
IdleRestG == IdleOld /\ IdleL /\ IdleU /\ IdleK /\ IdleN
IdleRestK == IdleOld /\ IdleL /\ IdleU /\ IdleG /\ IdleN
IdleRestN == IdleOld /\ IdleL /\ IdleU /\ IdleG /\ IdleK

IdleX == IdleF /\ IdleR /\ IdleB /\ IdleY

InitV ==
    /\ vfile \in VFiles
    /\ vres = <<>>
    /\ IdleCL
    /\ IdleX
    /\ IdleS
    /\ IdleI

\* one call is_valid_pdf(filepath) with the default min_size
CallIsValid ==
    /\ vres = <<>>
    /\ vres' = <<is_valid_pdf(vfile, MinSize)>>
    /\ UNCHANGED <<vfile, varsX, varsCL, varsS, varsI>>

NextV == CallIsValid

SpecV == InitV /\ [][NextV]_vars

\* the five predicates of the validator, read off the file
C8_Exists   == vfile.exists
C8_BigEnough == vfile.size >= 50000
C8_Header   == vfile.header = "%PDF"
C8_Parses   == vfile.pages >= 1
C8_MainName ==
    \A m \in { <<"supplem">>, <<"suppinfo">>, <<"si", "_">>,
               <<"_", "si", ".">>, <<"s001">>, <<"s002">> } :
        ~Contains(LowerStr(vfile.name), m)

---------------------------------------------------------------------------
(* SpecCL: CLWriters threads each call update_checklist once while a       *)
(* reader calls parse_checklist (which takes no lock) at any moment.       *)
(* What open(path, 'w') leaves on disk before close(): the file is         *)
(* truncated at once, the text written reaches the disk when the file      *)
(* object's buffer fills and at close(), so any prefix may be on disk.     *)

CLRows    == 2
CLWriters == 2

CLCallers == 1..CLWriters
CLUrl(i)  == <<"http", ":", "/", "/", "a", Str(i)>>
CLBoxes   == {<<>>, <<" ">>, <<"x">>}
CLRow(i, box, eol) ==
    <<Str(i), ".", " ", "[">> \o box \o <<"]", " ">> \o CLUrl(i) \o <<eol>>

\* the checklists: an optional line of notes, then rows 1..CLRows, with one
\* kind of line end throughout
CLFiles ==
    { (IF notes THEN <<"notes", eol>> ELSE <<>>)
        \o Concat([i \in 1..CLRows |-> CLRow(i, boxes[i], eol)]) :
      notes \in BOOLEAN, eol \in {"LF", "CRLF"},
      boxes \in [1..CLRows -> CLBoxes] }

InitCL ==
    /\ cl0 \in CLFiles
    /\ checklist = cl0
    /\ checklist_lock = 0
    /\ clTgt \in [CLCallers -> 1..CLRows]
    /\ clPc = [t \in CLCallers |-> "call"]
    /\ clLines = [t \in CLCallers |-> <<>>]
    /\ clBuf = [t \in CLCallers |-> <<>>]
    /\ clRead = <<>>
    /\ IdleV
    /\ IdleX
    /\ IdleS
    /\ IdleI

\* line 168: with checklist_lock
CLAcquire(t) ==
    /\ clPc[t] = "call"
    /\ checklist_lock = 0
    /\ checklist_lock' = t
    /\ clPc' = [clPc EXCEPT ![t] = "read"]
    /\ UNCHANGED <<varsV, varsX, varsS, varsI, checklist, cl0, clTgt, clLines, clBuf, clRead>>

\* lines 169-170: lines = f.readlines()
CLReadLines(t) ==
    /\ clPc[t] = "read"
    /\ clLines' = [clLines EXCEPT ![t] = readlines(checklist)]
    /\ clPc' = [clPc EXCEPT ![t] = "open"]
    /\ UNCHANGED <<varsV, varsX, varsS, varsI, checklist, checklist_lock, cl0, clTgt, clBuf, clRead>>

\* line 174: open(checklist_path, 'w') truncates the file
CLOpenW(t) ==
    /\ clPc[t] = "open"
    /\ checklist' = <<>>
    /\ clPc' = [clPc EXCEPT ![t] = "write"]
    /\ UNCHANGED <<varsV, varsX, varsS, varsI, checklist_lock, cl0, clTgt, clLines, clBuf, clRead>>

\* lines 175-178: one turn of the loop, f.write(line) into the buffer
CLWriteLine(t) ==
    /\ clPc[t] = "write"
    /\ clLines[t] # <<>>
    /\ clBuf' = [clBuf EXCEPT
                    ![t] = @ \o WriteText(MarkLine(Head(clLines[t]), clTgt[t]))]
    /\ clLines' = [clLines EXCEPT ![t] = Tail(@)]
    /\ UNCHANGED <<varsV, varsX, varsS, varsI, checklist, checklist_lock, cl0, clTgt, clPc, clRead>>

\* the buffer filled: its first n tokens reach the disk
CLFlushSome(t) ==
    /\ clPc[t] = "write"
    /\ \E n \in 1..Len(clBuf[t]) :
        /\ checklist' = checklist \o SubSeq(clBuf[t], 1, n)
        /\ clBuf' = [clBuf EXCEPT ![t] = SubSeq(@, n + 1, Len(@))]
    /\ UNCHANGED <<varsV, varsX, varsS, varsI, checklist_lock, cl0, clTgt, clPc, clLines, clRead>>

\* the end of both with blocks: close() flushes, the lock is released
CLClose(t) ==
    /\ clPc[t] = "write"
    /\ clLines[t] = <<>>
    /\ checklist' = checklist \o clBuf[t]
    /\ clBuf' = [clBuf EXCEPT ![t] = <<>>]
    /\ checklist_lock' = 0
    /\ clPc' = [clPc EXCEPT ![t] = "done"]
    /\ UNCHANGED <<varsV, varsX, varsS, varsI, cl0, clTgt, clLines, clRead>>

\* the process is killed: every thread stops where it is, and what the file
\* object of line 174 still buffers never reaches the disk
CLCrash ==
    /\ \E t \in CLCallers : clPc[t] \notin {"done", "crashed"}
    /\ clPc' = [t \in CLCallers |-> IF clPc[t] = "done" THEN "done" ELSE "crashed"]
    /\ clBuf' = [t \in CLCallers |-> <<>>]
    /\ UNCHANGED <<varsV, varsX, varsS, varsI, checklist, checklist_lock, cl0, clTgt, clLines, clRead>>

\* parse_checklist called by another thread: no lock is taken (lines 148-163)
CLParse ==
    /\ clRead = <<>>
    /\ clRead' = <<parse_checklist(checklist)>>
    /\ UNCHANGED <<varsV, varsX, varsS, varsI, checklist, checklist_lock, cl0, clTgt, clPc, clLines, clBuf>>

NextCL ==
    \/ \E t \in CLCallers : CLAcquire(t)
    \/ \E t \in CLCallers : CLReadLines(t)
    \/ \E t \in CLCallers : CLOpenW(t)
    \/ \E t \in CLCallers : CLWriteLine(t)
    \/ \E t \in CLCallers : CLFlushSome(t)
    \/ \E t \in CLCallers : CLClose(t)
    \/ CLCrash
    \/ CLParse

SpecCL == InitCL /\ [][NextCL]_vars

CLAllDone == \A t \in CLCallers : clPc[t] = "done"

\* the lines of a text as they are on disk: split after every line end
RECURSIVE RawLines(_)
RawLines(text) ==
    IF text = <<>> THEN <<>>
    ELSE LET nl == {k \in 1..Len(text) : text[k] \in {"LF", "CRLF"}} IN
         IF nl = {} THEN <<text>>
         ELSE LET k == CHOOSE x \in nl : \A y \in nl : x <= y IN
              <<SubSeq(text, 1, k)>> \o RawLines(SubSeq(text, k + 1, Len(text)))

CLTargets == {clTgt[t] : t \in CLCallers}

\* a line that starts with one of the marked indices and an empty checkbox
CLIsTargetRow(line) ==
    LET s == Strip(line) IN
    /\ Len(s) >= 4
    /\ \E i \in CLTargets : s[1] = Str(i)
    /\ s[2] = "."
    /\ \E k \in 3..Len(s) :
        /\ s[k] = "[" /\ \A j \in 3..(k - 1) : s[j] = " "
        /\ \E c \in (k + 1)..Len(s) :
            s[c] = "]" /\ \A j \in (k + 1)..(c - 1) : s[j] = " "

\* the line with its first "[", blanks, "]" replaced by "[x]"
CLChecked(line) ==
    LET k == CHOOSE x \in 1..Len(line) : line[x] = "[" /\ \A y \in 1..(x - 1) : line[y] # "["
        c == CHOOSE x \in 1..Len(line) : line[x] = "]" /\ \A y \in 1..(x - 1) : line[y] # "]"
    IN  SubSeq(line, 1, k) \o <<"x">> \o SubSeq(line, c, Len(line))

CLFrame(before, after) ==
    /\ Len(after) = Len(before)
    /\ \A k \in 1..Len(before) :
        after[k] = IF CLIsTargetRow(before[k]) THEN CLChecked(before[k])
                   ELSE before[k]

\* C9 (as claimed): update_checklist changes only the lines that start with
\* the index and an empty checkbox, turning the box into [x]; every other
\* line is on disk byte for byte as before, in the same order; and a second
\* call for the same index changes nothing.
C9_OnlyMatchingLinesChange ==
    /\ CLAllDone => CLFrame(RawLines(cl0), RawLines(checklist))
    /\ checklist_lock = 0 =>
        \A i \in 1..CLRows :
            UpdatedText(UpdatedText(checklist, i), i) = UpdatedText(checklist, i)

\* C9, what does hold: the same frame property for a checklist whose lines
\* end in "\n" (a checklist with "\r\n" line ends is rewritten with "\n").
C9_FrameWhenNoCR ==
    (CLAllDone /\ \A k \in 1..Len(cl0) : cl0[k] # "CRLF")
        => CLFrame(RawLines(cl0), RawLines(checklist))

CLExpectedRows ==
    LET rows == parse_checklist(cl0) IN
    [k \in 1..Len(rows) |->
        [rows[k] EXCEPT !.checked = @ \/ rows[k].index \in CLTargets]]

\* C10, the writers' half: after all update_checklist calls the rows marked
\* are checked and every other row is as it was.
C10_NoLostUpdate ==
    CLAllDone => parse_checklist(checklist) = CLExpectedRows

\* C10 (as claimed): under any interleaving of update_checklist calls and
\* parse_checklist reads no update is lost, no row is corrupted, and a reader
\* never observes a checklist with rows missing.
C10_WritersAndReaders ==
    /\ CLAllDone => parse_checklist(checklist) = CLExpectedRows
    /\ clRead # <<>> =>
        /\ Len(clRead[1]) = Len(parse_checklist(cl0))
        /\ \A k \in 1..Len(clRead[1]) :
            /\ clRead[1][k].index = parse_checklist(cl0)[k].index
            /\ clRead[1][k].url = parse_checklist(cl0)[k].url

CLCrashed == \E t \in CLCallers : clPc[t] = "crashed"

\* the row of a text with this index: <<>> when the text holds no such row
CLRowOf(text, i) ==
    SelectSeq(parse_checklist(text), LAMBDA r : r.index = i)

\* C11 (as claimed): when the process is killed at any point, also inside
\* update_checklist, every row the checklist had before is still in the file
\* on disk as a well-formed line with its index and URL, checked or not.
C11_CrashKeepsEveryRow ==
    CLCrashed =>
        \A i \in 1..CLRows :
            /\ Len(CLRowOf(checklist, i)) = 1
            /\ CLRowOf(checklist, i)[1].url = CLRowOf(cl0, i)[1].url

\* the rows that have been checked on disk at some moment: those checked at
\* the start and those of the update_checklist calls that have returned
CLCheckedOnce ==
    LET start == parse_checklist(cl0) IN
    {start[k].index : k \in {j \in 1..Len(start) : start[j].checked}}
        \cup {clTgt[t] : t \in {u \in CLCallers : clPc[u] = "done"}}

\* C12: a row that is checked is never written back unchecked: at every
\* moment, also while another update_checklist call rewrites the file, a row
\* that was checked at the start or has been marked by a call that returned
\* is checked wherever it is on disk, and it is on disk whenever no call is
\* under way.
C12_CheckedIsMonotonic ==
    LET rows == parse_checklist(checklist) IN
    /\ \A k \in 1..Len(rows) : rows[k].index \in CLCheckedOnce => rows[k].checked
    /\ (checklist_lock = 0 /\ ~CLCrashed) =>
          \A i \in CLCheckedOnce : \E k \in 1..Len(rows) : rows[k].index = i

\* witness: a row that was checked at the start has been read and written
\* back by an update_checklist call for its own index, and is still checked
C12_Witness ==
    \E t \in CLCallers :
        /\ clPc[t] = "done"
        /\ CLRowOf(cl0, clTgt[t])[1].checked
        /\ CLRowOf(checklist, clTgt[t]) # <<>>
        /\ CLRowOf(checklist, clTgt[t])[1].checked

---------------------------------------------------------------------------
(* Spec: main() and its two thread pools (download_sources.py 2402-2512).   *)
(* A task is atomic between two accesses to what the tasks share: the       *)
(* registry under doi_lock, the checklist under checklist_lock.  The source *)
(* chain and the browser attempt of an item touch its own output file only  *)
(* (the file name starts with the item number) and are one step each here;  *)
(* SpecItem unfolds them.                                                    *)

SRows          == 2
Workers        == 2
BrowserWorkers == 2

UrlPdf   == <<"https", ":", "/", "/", "x", ".", "org", "/", "doi", "/", "pdf", "/",
              "10", ".", "1002", "/", "abc">>
UrlFull  == <<"https", ":", "/", "/", "x", ".", "org", "/", "doi", "/",
              "10", ".", "1002", "/", "abc", "/", "full">>
UrlArxiv == <<"https", ":", "/", "/", "arxiv", ".", "org", "/", "abs", "/",
              "2301", ".", "00001">>
SUrls    == {UrlPdf, UrlFull, UrlArxiv}

\* what a download can leave in a file: a paper, or an error page
Good == [size |-> 9000000, header |-> "%PDF", pages |-> 12]
Html == [size |-> 3000, header |-> "<htm", pages |-> -1]
NetContents == {Good, Html}

\* what a download that timed out leaves: the start of a paper
Truncated == [size |-> 60000, header |-> "%PDF", pages |-> -1]

\* m with the key k bound to v (dict assignment, file creation or overwrite)
Put(m, k, v) == [x \in (DOMAIN m) \cup {k} |-> IF x = k THEN v ELSE m[x]]

\* m without the key k (unlink)
Del(m, k) == [x \in (DOMAIN m) \ {k} |-> m[x]]

\* the file at a path, as is_valid_pdf reads it
File(d, name) ==
    IF name \in DOMAIN d /\ "size" \in DOMAIN d[name]
    THEN [exists |-> TRUE, size |-> d[name].size, header |-> d[name].header,
          pages |-> d[name].pages, name |-> name]
    ELSE [exists |-> FALSE, size |-> 0, header |-> "", pages |-> -1, name |-> name]

\* lines 112-120: the item number and DOI a file name gives, <<>> if none
DoiOfArtifactName(name) ==
    IF /\ Len(name) >= 6
       /\ name[1] = "item" /\ DigitLen(name[2]) > 0 /\ name[3] = "_"
       /\ SubSeq(name, Len(name) - 1, Len(name)) = <<".", "pdf">>
       /\ name[4] = "10" /\ name[5] = "."
    THEN LET doi_part == SubSeq(name, 4, Len(name) - 2)
             us == {k \in 1..Len(doi_part) : doi_part[k] = "_"}
         IN  IF us = {} THEN <<>>
             ELSE <<IntOf(name[2]),
                    SubSeq(doi_part, 1, Min(us) - 1) \o <<"/">>
                        \o SubSeq(doi_part, Min(us) + 1, Len(doi_part))>>
    ELSE <<>>

\* lines 108-121: the dicts init_downloaded_dois can build from the files of
\* output_dir (glob gives the files in any order, a later file overwrites)
init_downloaded_dois(d) ==
    LET found == {DoiOfArtifactName(n) : n \in DOMAIN d} \ {<<>>}
        dois  == {e[2] : e \in found}
    IN  {f \in [dois -> {e[1] : e \in found}] : \A x \in dois : <<f[x], x>> \in found}

\* the stub named after the duplicate alone
StubName_self(item_index, original_item) ==
    <<"item", Str03(item_index), "_", "duplicate", "_", "of", "_", "item",
      Str03(item_index)>>

\* line 132
StubName(item_index, original_item) ==
    <<"item", Str03(item_index), "_", "duplicate", "_", "of", "_", "item",
      Str03(original_item)>>

\* lines 126-137: what check_duplicate returns
check_duplicate(doi, reg) == doi # <<>> /\ doi \in DOMAIN reg

\* lines 131-134: the output_dir after check_duplicate found doi registered
WriteStub(d, doi, item_index, reg) ==
    Put(d, StubName(item_index, reg[doi]), [original |-> reg[doi], doi |-> doi])

\* the registration that overwrites an entry
register_doi_overwrite(reg, doi, item_index) ==
    IF doi # <<>> THEN Put(reg, doi, item_index) ELSE reg

\* lines 140-145
register_doi(reg, doi, item_index) ==
    IF doi # <<>> /\ doi \notin DOMAIN reg THEN Put(reg, doi, item_index) ELSE reg

\* the order with Sci-Hub before the open-access sources
FastOrder_scihubFirst ==
    <<"direct", "scihub", "open_access", "OpenAlex", "CORE", "Semantic Scholar",
      "BASE", "OpenAIRE", "DOAJ", "ResearchGate", "12ft.io", "Google Scholar">>

\* the fast strategies in the order process_item_fast tries them (2265-2366)
FastOrder ==
    <<"direct", "open_access", "OpenAlex", "CORE", "Semantic Scholar", "BASE",
      "OpenAIRE", "DOAJ", "ResearchGate", "12ft.io", "scihub", "Google Scholar">>

\* line 2266: url.lower().endswith('.pdf') or '/pdf' in url.lower()
UrlLooksPdf(url) ==
    LET u == LowerStr(url) IN
    \/ EndsWith(u, <<".", "pdf">>)
    \/ \E k \in 1..(Len(u) - 1) : u[k] = "/" /\ u[k + 1] \in {"pdf", "pdfdirect"}

\* the guards of lines 2266, 2334, 2351, 2360: whether process_item_fast
\* calls strategy s; has_title: get_paper_metadata found a title
Invoked(s, url, doi, has_title, playwright) ==
    CASE s = "direct"         -> UrlLooksPdf(url)
      [] s = "ResearchGate"   -> has_title
      [] s = "scihub"         -> doi # <<>>
      [] s = "Google Scholar" -> has_title /\ playwright
      [] OTHER                -> TRUE

\* whether strategy s gets as far as a download with these arguments: the
\* early returns of lines 562, 634, 675, 799, 841-845, 901, 944, and the
\* queries of try_open_access (428, 467) and try_core_api (776, 784)
CanFetch(s, url, doi, has_title, playwright) ==
    /\ Invoked(s, url, doi, has_title, playwright)
    /\ CASE s \in {"open_access", "CORE"} -> doi # <<>> \/ ArxivMatches(url) # {}
         [] s \in {"OpenAlex", "Semantic Scholar", "BASE", "OpenAIRE", "DOAJ"} ->
                doi # <<>> \/ has_title
         [] OTHER -> TRUE

\* line 2283: the titles get_paper_metadata can return for a DOI, as "found or not"
Titles(doi) == IF doi = <<>> THEN {FALSE} ELSE BOOLEAN

\* what one pass of the fast chain over an item can come to, lines 2265-2369:
\* the name of the strategy that succeeded with the file it validated at the
\* output path, or "needs_browser" with what the failed strategies left there
\* (direct_download unlinks what it rejects, lines 370-379; try_scihub keeps
\* the file when its download times out, lines 408-419; nothing is touched
\* when no strategy found a link)
FastOutcomes(url, doi, name, d, playwright) ==
    { [source |-> s, disk |-> Put(d, name, c)] :
        s \in { FastOrder[k] : k \in { j \in 1..Len(FastOrder) :
                    \E t \in Titles(doi) : CanFetch(FastOrder[j], url, doi, t, playwright) } },
        c \in { x \in NetContents :
                    is_valid_pdf(File(Put(d, name, x), name), MinSize) } }
    \cup { [source |-> "needs_browser", disk |-> d],
           [source |-> "needs_browser", disk |-> Del(d, name)] }
    \cup { [source |-> "needs_browser", disk |-> Put(d, name, Truncated)] :
             x \in { y \in {1} : doi # <<>> } }

\* what try_browser_download can come to (1361-2194): success with the file
\* it left at the output path, or failure.  The branches that fetch with
\* direct_download validate at the output path and unlink what they reject;
\* the branches of lines 1606-1611, 1648-1653, 1750-1753, 1778-1783,
\* 2055-2061 and 2094-2100 move or write the file to the output path and
\* then validate it there, leaving it when it is rejected; the automatic
\* download of lines 1864-1883 validates the file in the download directory
\* under the name the site suggested and then moves it to the output path.
BrowserOutcomes(name, d) ==
    { [ok |-> TRUE, disk |-> Put(d, name, c)] :
        c \in { x \in NetContents :
                  \/ is_valid_pdf(File(Put(d, name, x), name), MinSize)
                  \/ /\ x.size > 50000
                     /\ is_valid_pdf([exists |-> TRUE, size |-> x.size,
                                      header |-> x.header, pages |-> x.pages,
                                      name |-> <<"download", ".", "pdf">>], MinSize) } }
    \cup { [ok |-> FALSE, disk |-> d], [ok |-> FALSE, disk |-> Del(d, name)] }
    \cup { [ok |-> FALSE, disk |-> Put(d, name, c)] :
             c \in { x \in NetContents :
                       ~is_valid_pdf(File(Put(d, name, x), name), MinSize) } }

Idx(p) == to_process[p][1]
Url(p) == to_process[p][2]

\* the duplicate key taken from the file-name identifier instead
Doi_fromIdentifier(p) == extract_identifier_from_url(Url(p))

\* line 2247: doi = extract_doi_from_url(url)
Doi(p) == extract_doi_from_url(Url(p))

\* what an earlier run can have left under an item's file name
PreContents == <<Good, Html>>

SRow(i, box, url) == <<Str(i), ".", " ", "[">> \o box \o <<"]", " ">> \o url \o <<"LF">>

\* a line that is no row: the number and the URL without the box
NoRow(i, url) == <<Str(i), ".", " ">> \o url \o <<"LF">>

\* the checklist of SRows rows, some checked, or a file without any row, or
\* no file at the path given; and an output_dir holding the artifacts of
\* some rows from an earlier run
Init ==
    /\ \E boxes \in [1..SRows -> {<<>>, <<"x">>}], urls \in [1..SRows -> SUrls],
          pre \in [1..SRows -> 0..Len(PreContents)],
          kind \in {"rows", "norows", "missing"} :
        /\ checklist =
              CASE kind = "rows" -> Concat([i \in 1..SRows |-> SRow(i, boxes[i], urls[i])])
                [] kind = "norows" -> Concat([i \in 1..SRows |-> NoRow(i, urls[i])])
                [] OTHER -> <<>>
        /\ kind # "rows" => boxes = [i \in 1..SRows |-> <<>>]
        /\ disk = [n \in {get_filename(urls[i], i) : i \in {j \in 1..SRows : pre[j] # 0}}
                    |-> PreContents[pre[CHOOSE i \in 1..SRows : get_filename(urls[i], i) = n]]]
        /\ opts \in [skip_browser : BOOLEAN, playwright : BOOLEAN,
                     checklist_exists : {kind # "missing"}]
    /\ downloaded_dois = <<>> /\ doi_lock = 0
    /\ to_process = <<>> /\ pc = <<>> /\ source = <<>> /\ seen = <<>>
    /\ fast_results = <<>> /\ needs_browser = <<>>
    /\ bpc = <<>> /\ browser_results = <<>>
    /\ mainpc = "start" /\ report = <<>>
    /\ checklist_lock = 0 /\ cl0 = checklist /\ clTgt = <<>> /\ clPc = <<>>
    /\ clLines = <<>> /\ clBuf = <<>> /\ clRead = <<>>
    /\ IdleV
    /\ IdleX
    /\ IdleI

\* the list that keeps the checked rows too
ToProcess_all(items, start, end_idx) ==
    SelectSeq(items, LAMBDA r : start <= r.index /\ r.index <= end_idx)

\* lines 2444-2445: the unchecked rows of the range, in file order
ToProcess(items, start, end_idx) ==
    SelectSeq(items, LAMBDA r : ~r.checked /\ start <= r.index /\ r.index <= end_idx)

\* line 2443: end_idx = args.end if args.end else len(items); end is 0 for
\* an --end that was not given (None), and an --end 0 is falsy as well
EndIdx(end, items) == IF end # 0 THEN end ELSE Len(items)

\* the test that stops only when there is no file
Fatal_missingOnly(found, items) == ~found

\* lines 2425-2434: the two tests that end the run with sys.exit(1)
Fatal(found, items) == ~found \/ items = <<>>

\* lines 2423-2461: look for the checklist and parse it, scan output_dir,
\* keep the unchecked rows of the range (--start 1, --end unset), submit
\* them all to the pool
MainStart ==
    /\ mainpc = "start"
    /\ LET items == parse_checklist(checklist)
           end_idx == EndIdx(0, items)
           keep == ToProcess(items, 1, end_idx)
       IN  IF Fatal(opts.checklist_exists, items)
           THEN /\ mainpc' = "exit1"
                /\ UNCHANGED <<downloaded_dois, to_process, pc, source, seen>>
           ELSE /\ downloaded_dois' \in init_downloaded_dois(disk)
                /\ IF keep = <<>>
                   THEN /\ mainpc' = "exit0"
                        /\ UNCHANGED <<to_process, pc, source, seen>>
                   ELSE /\ to_process' = [k \in 1..Len(keep) |-> <<keep[k].index, keep[k].url>>]
                        /\ pc' = [k \in 1..Len(keep) |-> "queued"]
                        /\ source' = [k \in 1..Len(keep) |-> ""]
                        /\ seen' = [k \in 1..Len(keep) |-> <<>>]
                        /\ mainpc' = "phase1"
    /\ UNCHANGED <<varsV, varsX, varsI, varsCL, opts, doi_lock, disk, fast_results, needs_browser, bpc,
                   browser_results, report>>

Working1 == {"chain", "dup_mark", "mark", "register", "unwind_doi", "unwind_cl"}

\* the phase-1 tasks that have returned a success
Resolved ==
    {q \in DOMAIN pc : pc[q] \in {"returned", "collected"} /\ source[q] # "needs_browser"}

\* a pool thread takes the next task: lines 2247-2250, extract_doi_from_url
\* and check_duplicate, which writes the stub under doi_lock
StartFast(p) ==
    /\ mainpc = "phase1"
    /\ pc[p] = "queued"
    /\ \A q \in 1..(p - 1) : pc[q] # "queued"
    /\ Cardinality({q \in DOMAIN pc : pc[q] \in Working1}) < Workers
    /\ Doi(p) # <<>> => doi_lock = 0
    /\ seen' = [seen EXCEPT ![p] = <<downloaded_dois, Resolved>>]
    /\ IF check_duplicate(Doi(p), downloaded_dois)
       THEN /\ disk' = WriteStub(disk, Doi(p), Idx(p), downloaded_dois)
            /\ source' = [source EXCEPT ![p] = "duplicate"]
            /\ pc' = [pc EXCEPT ![p] = "dup_mark"]
       ELSE /\ pc' = [pc EXCEPT ![p] = "chain"]
            /\ UNCHANGED <<disk, source>>
    /\ UNCHANGED <<varsV, varsX, varsI, varsCL, opts, doi_lock, downloaded_dois, to_process, fast_results,
                   needs_browser, bpc, browser_results, mainpc, report>>

\* lines 2251-2252: the duplicate is marked checked and the task returns
DupMark(p) ==
    /\ pc[p] = "dup_mark"
    /\ checklist_lock = 0
    /\ checklist' = UpdatedText(checklist, Idx(p))
    /\ pc' = [pc EXCEPT ![p] = "returned"]
    /\ UNCHANGED <<varsV, varsX, varsI, varsCLidle, opts, doi_lock, disk, downloaded_dois, to_process, source,
                   seen, fast_results, needs_browser, bpc, browser_results, mainpc,
                   report>>

\* lines 2254-2369 without the calls of update_checklist and register_doi:
\* the file is there already, or the fast strategies run
FastChain(p) ==
    /\ pc[p] = "chain"
    /\ LET name == get_filename(Url(p), Idx(p)) IN
       IF File(disk, name).exists /\ is_valid_pdf(File(disk, name), MinSize)
       THEN /\ source' = [source EXCEPT ![p] = "exists"]
            /\ pc' = [pc EXCEPT ![p] = "mark"]
            /\ UNCHANGED disk
       ELSE \E o \in FastOutcomes(Url(p), Doi(p), name, disk, opts.playwright) :
            /\ source' = [source EXCEPT ![p] = o.source]
            /\ disk' = o.disk
            /\ pc' = [pc EXCEPT ![p] = IF o.source = "needs_browser"
                                       THEN "returned" ELSE "mark"]
    /\ UNCHANGED <<varsV, varsX, varsI, varsCL, opts, doi_lock, downloaded_dois, to_process, seen,
                   fast_results, needs_browser, bpc, browser_results, mainpc, report>>

\* update_checklist(checklist_path, index) after a success
Mark(p) ==
    /\ pc[p] = "mark"
    /\ checklist_lock = 0
    /\ checklist' = UpdatedText(checklist, Idx(p))
    /\ pc' = [pc EXCEPT ![p] = "register"]
    /\ UNCHANGED <<varsV, varsX, varsI, varsCLidle, opts, doi_lock, disk, downloaded_dois, to_process, source,
                   seen, fast_results, needs_browser, bpc, browser_results, mainpc,
                   report>>

\* register_doi(doi, index) after a success, and the return
Register(p) ==
    /\ pc[p] = "register"
    /\ Doi(p) # <<>> => doi_lock = 0
    /\ downloaded_dois' = register_doi(downloaded_dois, Doi(p), Idx(p))
    /\ pc' = [pc EXCEPT ![p] = "returned"]
    /\ UNCHANGED <<varsV, varsX, varsI, varsCL, opts, doi_lock, disk, to_process, source, seen,
                   fast_results, needs_browser, bpc, browser_results, mainpc, report>>

\* what process_item_fast returned
FastResult(p) == <<Idx(p), source[p] # "needs_browser", source[p], Url(p), Doi(p)>>

\* lines 2463-2471: one turn of the as_completed loop of phase 1; f.result()
\* of a task that raised raises again and the except branch only prints
Collect(p) ==
    /\ mainpc = "phase1"
    /\ pc[p] \in {"returned", "raised"}
    /\ IF pc[p] = "returned"
       THEN /\ fast_results' = Append(fast_results, FastResult(p))
            /\ needs_browser' = IF FastResult(p)[2] THEN needs_browser
                                ELSE Append(needs_browser, <<Idx(p), Url(p), Doi(p)>>)
            /\ pc' = [pc EXCEPT ![p] = "collected"]
       ELSE /\ pc' = [pc EXCEPT ![p] = "dropped"]
            /\ UNCHANGED <<fast_results, needs_browser>>
    /\ UNCHANGED <<varsV, varsX, varsI, varsCL, opts, doi_lock, disk, downloaded_dois, to_process,
                   source, seen, bpc, browser_results, mainpc, report>>

\* the items of a result list that succeeded (r[1] of the tuples)
Successes(rs) == Cardinality({k \in 1..Len(rs) : rs[k][2] = TRUE})

\* the list that leaves the failed items out
Failed_none(rs) == SelectSeq(rs, LAMBDA r : FALSE)

\* lines 2499-2501: the list of the indices that failed
Failed(rs) ==
    LET ks == SelectSeq([k \in 1..Len(rs) |-> k], LAMBDA k : rs[k][2] # TRUE)
    IN  [j \in 1..Len(ks) |-> rs[ks[j]][1]]

\* lines 2507-2512: the summary, with sorted(total_failed)
Summary(fast, browser, failed) ==
    [fast_success |-> fast, browser_success |-> browser,
     total_success |-> fast + browser,
     total_failed |-> SortSeq(failed, LAMBDA a, b : a < b)]

\* the pool block left as soon as one future was taken
Phase1Over_first(tasks) == \E p \in DOMAIN tasks : tasks[p] \in {"collected", "dropped"}

\* lines 2459-2471: the as_completed loop has yielded every future of the
\* dict and main has taken each (its result, or its exception); the with
\* block then shuts the pool down, where no thread is at work any more
Phase1Over(tasks) == \A p \in DOMAIN tasks : tasks[p] \in {"collected", "dropped"}

\* lines 2473-2486 and 2500-2512: phase 1 is over; phase 2 starts, or is
\* skipped and the summary is printed
EndPhase1 ==
    /\ mainpc = "phase1"
    /\ Phase1Over(pc)
    /\ IF needs_browser # <<>> /\ ~opts.skip_browser /\ opts.playwright
       THEN /\ mainpc' = "phase2"
            /\ bpc' = [k \in 1..Len(needs_browser) |-> "queued"]
            /\ UNCHANGED report
       ELSE /\ mainpc' = "done"
            /\ report' = <<Summary(Successes(fast_results), 0, Failed(fast_results))>>
            /\ UNCHANGED bpc
    /\ UNCHANGED <<varsV, varsX, varsI, varsCL, opts, doi_lock, disk, downloaded_dois, to_process, pc, source,
                   seen, fast_results, needs_browser, browser_results>>

Working2 == {"mark", "register", "unwind_cl"}

\* a pool thread of phase 2 takes the next task: lines 2387-2392 (the run is
\* without --screenshots-only, the branch of line 2383 is not taken)
BrowserAttempt(q) ==
    /\ mainpc = "phase2"
    /\ bpc[q] = "queued"
    /\ \A r \in 1..(q - 1) : bpc[r] # "queued"
    /\ Cardinality({r \in DOMAIN bpc : bpc[r] \in Working2}) < BrowserWorkers
    /\ \E o \in BrowserOutcomes(get_filename(needs_browser[q][2], needs_browser[q][1]), disk) :
        /\ disk' = o.disk
        /\ bpc' = [bpc EXCEPT ![q] = IF o.ok THEN "mark" ELSE "returned_fail"]
    /\ UNCHANGED <<varsV, varsX, varsI, varsCL, opts, doi_lock, downloaded_dois, to_process, pc, source, seen,
                   fast_results, needs_browser, browser_results, mainpc, report>>

\* line 2394
BrowserMark(q) ==
    /\ bpc[q] = "mark"
    /\ checklist_lock = 0
    /\ checklist' = UpdatedText(checklist, needs_browser[q][1])
    /\ bpc' = [bpc EXCEPT ![q] = "register"]
    /\ UNCHANGED <<varsV, varsX, varsI, varsCLidle, opts, doi_lock, disk, downloaded_dois, to_process, pc,
                   source, seen, fast_results, needs_browser, browser_results, mainpc,
                   report>>

\* lines 2395-2396
BrowserRegister(q) ==
    /\ bpc[q] = "register"
    /\ needs_browser[q][3] # <<>> => doi_lock = 0
    /\ downloaded_dois' =
          register_doi(downloaded_dois, needs_browser[q][3], needs_browser[q][1])
    /\ bpc' = [bpc EXCEPT ![q] = "returned_ok"]
    /\ UNCHANGED <<varsV, varsX, varsI, varsCL, opts, doi_lock, disk, to_process, pc, source, seen,
                   fast_results, needs_browser, browser_results, mainpc, report>>

\* what process_item_browser returned (lines 2396, 2399)
BrowserResult(q) ==
    IF bpc[q] = "returned_ok" THEN <<needs_browser[q][1], TRUE, "browser">>
    ELSE <<needs_browser[q][1], FALSE, "Vision system could not identify PDF download element">>

\* lines 2488-2494: one turn of the as_completed loop of phase 2
BrowserCollect(q) ==
    /\ mainpc = "phase2"
    /\ bpc[q] \in {"returned_ok", "returned_fail", "raised"}
    /\ IF bpc[q] = "raised"
       THEN /\ bpc' = [bpc EXCEPT ![q] = "dropped"]
            /\ UNCHANGED browser_results
       ELSE /\ browser_results' = Append(browser_results, BrowserResult(q))
            /\ bpc' = [bpc EXCEPT ![q] = "collected"]
    /\ UNCHANGED <<varsV, varsX, varsI, varsCL, opts, doi_lock, disk, downloaded_dois, to_process, pc, source,
                   seen, fast_results, needs_browser, mainpc, report>>

\* lines 2496-2512: phase 2 is over, the summary is printed
EndPhase2 ==
    /\ mainpc = "phase2"
    /\ \A q \in DOMAIN bpc : bpc[q] \in {"collected", "dropped"}
    /\ report' = <<Summary(Successes(fast_results), Successes(browser_results),
                           Failed(browser_results))>>
    /\ mainpc' = "done"
    /\ UNCHANGED <<varsV, varsX, varsI, varsCL, opts, doi_lock, disk, downloaded_dois, to_process, pc, source,
                   seen, fast_results, needs_browser, bpc, browser_results>>

Next ==
    \/ MainStart
    \/ \E p \in DOMAIN pc : StartFast(p)
    \/ \E p \in DOMAIN pc : DupMark(p)
    \/ \E p \in DOMAIN pc : FastChain(p)
    \/ \E p \in DOMAIN pc : Mark(p)
    \/ \E p \in DOMAIN pc : Register(p)
    \/ \E p \in DOMAIN pc : Collect(p)
    \/ EndPhase1
    \/ \E q \in DOMAIN bpc : BrowserAttempt(q)
    \/ \E q \in DOMAIN bpc : BrowserMark(q)
    \/ \E q \in DOMAIN bpc : BrowserRegister(q)
    \/ \E q \in DOMAIN bpc : BrowserCollect(q)
    \/ EndPhase2

Spec == Init /\ [][Next]_vars

---------------------------------------------------------------------------
(* SpecExc: main() with tasks that raise.  The strategies catch what they   *)
(* raise (C19 below); the calls of a task that are outside every try are    *)
(* the ones on the file system: the stub written by check_duplicate under   *)
(* doi_lock (line 133) and the open() calls of update_checklist under       *)
(* checklist_lock (lines 169, 174), which raise OSError when the output     *)
(* directory or the checklist cannot be written.  A task that raises is     *)
(* shown in two steps, the raise inside the with block and the exit of the  *)
(* with block, so that the lock is seen held in between.                    *)

\* a run that starts on unchecked rows and an empty output directory
InitExc ==
    /\ Init
    /\ disk = <<>>
    /\ \A k \in 1..Len(parse_checklist(checklist)) : ~parse_checklist(checklist)[k].checked

\* the lock that stays with the task that raised
LockAfterRaise_held(holder) == holder

\* lines 130, 168: the lock after `with lock:` is left by an exception
LockAfterRaise(holder) == 0

\* a phase-1 task raises: in check_duplicate at stub_path.write_text (line
\* 133, doi_lock held), or in update_checklist at open() (lines 169, 174,
\* checklist_lock held, the file not yet truncated)
FastRaise(p) ==
    /\ mainpc = "phase1"
    /\ \/ /\ pc[p] = "queued"
          /\ \A q \in 1..(p - 1) : pc[q] # "queued"
          /\ Cardinality({q \in DOMAIN pc : pc[q] \in Working1}) < Workers
          /\ check_duplicate(Doi(p), downloaded_dois)
          /\ doi_lock = 0
          /\ doi_lock' = Idx(p)
          /\ seen' = [seen EXCEPT ![p] = <<downloaded_dois, Resolved>>]
          /\ pc' = [pc EXCEPT ![p] = "unwind_doi"]
          /\ UNCHANGED checklist_lock
       \/ /\ pc[p] \in {"dup_mark", "mark"}
          /\ checklist_lock = 0
          /\ checklist_lock' = Idx(p)
          /\ pc' = [pc EXCEPT ![p] = "unwind_cl"]
          /\ UNCHANGED <<doi_lock, seen>>
    /\ UNCHANGED <<varsV, varsX, varsI, checklist, cl0, clTgt, clPc, clLines, clBuf, clRead,
                   opts, disk, downloaded_dois, to_process, source, fast_results,
                   needs_browser, bpc, browser_results, mainpc, report>>

\* the exception leaves the with block and process_item_fast; the future
\* holds it
FastUnwind(p) ==
    /\ pc[p] \in {"unwind_doi", "unwind_cl"}
    /\ IF pc[p] = "unwind_doi"
       THEN doi_lock' = LockAfterRaise(doi_lock) /\ UNCHANGED checklist_lock
       ELSE checklist_lock' = LockAfterRaise(checklist_lock) /\ UNCHANGED doi_lock
    /\ pc' = [pc EXCEPT ![p] = "raised"]
    /\ UNCHANGED <<varsV, varsX, varsI, checklist, cl0, clTgt, clPc, clLines, clBuf, clRead,
                   opts, disk, downloaded_dois, to_process, source, seen, fast_results,
                   needs_browser, bpc, browser_results, mainpc, report>>

\* a phase-2 task raises in update_checklist (line 2394)
BrowserRaise(q) ==
    /\ bpc[q] = "mark"
    /\ checklist_lock = 0
    /\ checklist_lock' = needs_browser[q][1]
    /\ bpc' = [bpc EXCEPT ![q] = "unwind_cl"]
    /\ UNCHANGED <<varsV, varsX, varsI, checklist, cl0, clTgt, clPc, clLines, clBuf, clRead,
                   opts, disk, downloaded_dois, doi_lock, to_process, pc, source, seen,
                   fast_results, needs_browser, browser_results, mainpc, report>>

\* the exception leaves the with block and process_item_browser
BrowserUnwind(q) ==
    /\ bpc[q] = "unwind_cl"
    /\ checklist_lock' = LockAfterRaise(checklist_lock)
    /\ bpc' = [bpc EXCEPT ![q] = "raised"]
    /\ UNCHANGED <<varsV, varsX, varsI, checklist, cl0, clTgt, clPc, clLines, clBuf, clRead,
                   opts, disk, downloaded_dois, doi_lock, to_process, pc, source, seen,
                   fast_results, needs_browser, browser_results, mainpc, report>>

NextExc ==
    \/ MainStart
    \/ \E p \in DOMAIN pc : StartFast(p)
    \/ \E p \in DOMAIN pc : DupMark(p)
    \/ \E p \in DOMAIN pc : FastChain(p)
    \/ \E p \in DOMAIN pc : Mark(p)
    \/ \E p \in DOMAIN pc : Register(p)
    \/ \E p \in DOMAIN pc : Collect(p)
    \/ EndPhase1
    \/ \E q \in DOMAIN bpc : BrowserAttempt(q)
    \/ \E q \in DOMAIN bpc : BrowserMark(q)
    \/ \E q \in DOMAIN bpc : BrowserRegister(q)
    \/ \E q \in DOMAIN bpc : BrowserCollect(q)
    \/ EndPhase2
    \/ \E p \in DOMAIN pc : FastRaise(p)
    \/ \E p \in DOMAIN pc : FastUnwind(p)
    \/ \E q \in DOMAIN bpc : BrowserRaise(q)
    \/ \E q \in DOMAIN bpc : BrowserUnwind(q)

SpecExc == InitExc /\ [][NextExc]_vars

---------------------------------------------------------------------------
(* Properties of Spec.                                                      *)

Started(p)   == pc[p] # "queued"
Returned(p)  == pc[p] \in {"returned", "collected"}

\* the task ran the source chain: it was no duplicate and its file was not there
Fetched(p) ==
    source[p] \in {FastOrder[k] : k \in 1..Len(FastOrder)} \cup {"needs_browser"}

\* the item's output file holds a valid artifact
HasArtifact(idx, url) ==
    is_valid_pdf(File(disk, get_filename(url, idx)), MinSize)

RowChecked(idx) ==
    \E k \in 1..Len(parse_checklist(checklist)) :
        parse_checklist(checklist)[k].index = idx /\ parse_checklist(checklist)[k].checked

\* C1 (as claimed): of two phase-1 tasks whose URLs give the same DOI, never
\* both pass check_duplicate as non-duplicates and both run the source chain.
C1_NoTwoOriginals ==
    \A p, q \in DOMAIN pc :
        (p # q /\ Doi(p) # <<>> /\ Doi(p) = Doi(q)) => ~(Fetched(p) /\ Fetched(q))

\* C2 (as claimed): after the run, of two processed rows whose URLs give the
\* same DOI at most one has an artifact, and when one has, the other has a
\* stub that names it.
C2_OneArtifactPerIdentifier ==
    mainpc = "done" =>
        \A p, q \in DOMAIN pc :
            (p # q /\ Doi(p) # <<>> /\ Doi(p) = Doi(q) /\ HasArtifact(Idx(p), Url(p))) =>
                /\ ~HasArtifact(Idx(q), Url(q))
                /\ StubName(Idx(q), Idx(p)) \in DOMAIN disk

C13_AllCheckedDoesNothing ==
    LET rows == parse_checklist(cl0) IN
    (rows # <<>> /\ \A k \in 1..Len(rows) : rows[k].checked) =>
        /\ mainpc \in {"start", "exit0"}
        /\ to_process = <<>> /\ pc = <<>> /\ bpc = <<>>
        /\ fast_results = <<>> /\ needs_browser = <<>> /\ browser_results = <<>>
        /\ checklist = cl0
        /\ \A n \in DOMAIN disk : Len(n) >= 3 /\ n[Len(n)] = "pdf"

\* witness: main has left at line 2449 on a checklist whose rows are all checked
C13_Witness ==
    /\ mainpc = "exit0"
    /\ \A k \in 1..Len(parse_checklist(cl0)) : parse_checklist(cl0)[k].checked
    /\ checklist = cl0

\* C25: when there is no file at the checklist path, or the file has no row
\* that parses, the first step of the run is the exit with status 1, and it
\* changes neither the registry nor the checklist nor the output directory
\* and submits no task; nothing happens after it.
C25_FatalAbortsBeforeWork ==
    [][/\ mainpc # "exit1"
       /\ (mainpc = "start" /\ (~opts.checklist_exists \/ parse_checklist(checklist) = <<>>))
             => /\ mainpc' = "exit1"
                /\ UNCHANGED <<checklist, disk, downloaded_dois, to_process, pc, source,
                               fast_results, needs_browser, bpc, browser_results, report>>]_vars

\* witness: the run has ended with status 1 on a checklist file without rows,
\* next to an artifact the scan of the output directory would register
C25_Witness ==
    /\ mainpc = "exit1"
    /\ opts.checklist_exists /\ checklist # <<>>
    /\ \E n \in DOMAIN disk : DoiOfArtifactName(n) # <<>>
    /\ downloaded_dois = <<>> /\ pc = <<>> /\ checklist = cl0

---------------------------------------------------------------------------
(* Properties of SpecExc.                                                   *)

\* the result lists hold a success for the item
CountedSuccess(idx) ==
    \/ \E k \in 1..Len(fast_results) : fast_results[k][1] = idx /\ fast_results[k][2] = TRUE
    \/ \E k \in 1..Len(browser_results) :
           browser_results[k][1] = idx /\ browser_results[k][2] = TRUE

\* the summary lists the item as failed
ListedFailed(idx) ==
    /\ report # <<>>
    /\ \E k \in 1..Len(report[1].total_failed) : report[1].total_failed[k] = idx

\* every strategy the item has met so far has failed: the fast chain returned
\* needs_browser and no browser attempt for it has succeeded
OnlyFailures(p) ==
    /\ source[p] = "needs_browser"
    /\ pc[p] \in {"returned", "collected"}
    /\ \A q \in DOMAIN bpc :
          needs_browser[q][1] = Idx(p) => bpc[q] \in {"queued", "returned_fail", "collected"}
    /\ ~CountedSuccess(Idx(p))

C15_QueueIsPhase1Unresolved ==
    mainpc \in {"phase2", "done"} =>
        /\ \A p \in DOMAIN pc :
              (\E k \in 1..Len(needs_browser) :
                    needs_browser[k] = <<Idx(p), Url(p), Doi(p)>>)
                <=> ~(\E k \in 1..Len(fast_results) :
                        fast_results[k][1] = Idx(p) /\ fast_results[k][2] = TRUE)
        /\ DOMAIN bpc \subseteq DOMAIN needs_browser

\* main or a pool thread can take a step: main has not started or waits for
\* tasks of which one is not blocked, a task being blocked when the lock it
\* asks for is held or, still in the queue, when every pool thread is busy
SomeThreadCanStep ==
    \/ mainpc \in {"start", "done", "exit0", "exit1"}
    \/ /\ mainpc = "phase1"
       /\ \/ \A p \in DOMAIN pc : pc[p] \in {"collected", "dropped"}
          \/ \E p \in DOMAIN pc :
               \/ pc[p] \in {"chain", "unwind_doi", "unwind_cl", "returned", "raised"}
               \/ pc[p] \in {"dup_mark", "mark"} /\ checklist_lock = 0
               \/ pc[p] = "register" /\ (Doi(p) = <<>> \/ doi_lock = 0)
               \/ /\ pc[p] = "queued"
                  /\ Cardinality({q \in DOMAIN pc : pc[q] \in Working1}) < Workers
                  /\ Doi(p) = <<>> \/ doi_lock = 0
    \/ /\ mainpc = "phase2"
       /\ \/ \A q \in DOMAIN bpc : bpc[q] \in {"collected", "dropped"}
          \/ \E q \in DOMAIN bpc :
               \/ bpc[q] \in {"unwind_cl", "returned_ok", "returned_fail", "raised"}
               \/ bpc[q] = "mark" /\ checklist_lock = 0
               \/ bpc[q] = "register" /\ (needs_browser[q][3] = <<>> \/ doi_lock = 0)
               \/ /\ bpc[q] = "queued"
                  /\ Cardinality({r \in DOMAIN bpc : bpc[r] \in Working2}) < BrowserWorkers

\* C16: a task that raises does not stop the run: as long as main has not
\* finished some step can be taken, a lock is held only by a task that is
\* inside the with block, and when the run is over both locks are free and
\* every task that did not raise has handed its result to main.
C16_RaiseIsContained ==
    /\ SomeThreadCanStep
    /\ doi_lock # 0 =>
          \E p \in DOMAIN pc : pc[p] = "unwind_doi" /\ Idx(p) = doi_lock
    /\ checklist_lock # 0 =>
          \/ \E p \in DOMAIN pc : pc[p] = "unwind_cl" /\ Idx(p) = checklist_lock
          \/ \E q \in DOMAIN bpc :
                bpc[q] = "unwind_cl" /\ needs_browser[q][1] = checklist_lock
    /\ mainpc = "done" =>
          /\ doi_lock = 0 /\ checklist_lock = 0
          /\ \A p \in DOMAIN pc :
                \/ pc[p] = "dropped"
                \/ pc[p] = "collected" /\ \E k \in 1..Len(fast_results) :
                                             fast_results[k][1] = Idx(p)
          /\ \A q \in DOMAIN bpc :
                \/ bpc[q] = "dropped"
                \/ bpc[q] = "collected" /\ \E k \in 1..Len(browser_results) :
                                              browser_results[k][1] = needs_browser[q][1]

\* witness: the run is over, a task raised, and another task that started
\* after it had raised was downloaded and counted
C16_Witness ==
    /\ mainpc = "done"
    /\ doi_lock = 0 /\ checklist_lock = 0
    /\ \E p, r \in DOMAIN pc :
        /\ pc[p] = "dropped"
        /\ p < r
        /\ CountedSuccess(Idx(r))

\* C40: while a phase-1 task is queued, at work or not yet taken by main, no
\* phase-2 task exists; phase 2 runs only when every phase-1 future is done
\* and taken, and its tasks are the entries needs_browser had at that time.
C40_PhasesDoNotOverlap ==
    /\ (\E p \in DOMAIN pc : pc[p] \notin {"collected", "dropped"}) =>
          /\ bpc = <<>>
          /\ mainpc # "phase2"
    /\ mainpc \in {"start", "phase1", "exit0", "exit1"} => bpc = <<>>
    /\ bpc # <<>> => Len(bpc) = Len(needs_browser)

\* witness: two phase-1 tasks were taken by main, one of them after it had
\* raised, and a browser task is at work on the other
C40_Witness ==
    /\ mainpc = "phase2"
    /\ Len(pc) = 2
    /\ \E p \in DOMAIN pc : pc[p] = "dropped"
    /\ \E q \in DOMAIN bpc : bpc[q] = "mark"

\* C37 (as claimed): no stub names the item it was written for as the
\* original, and an item whose own valid artifact is in output_dir is
\* returned as "exists", never as a duplicate.
C37_NoSelfDuplicate ==
    /\ \A n \in DOMAIN disk :
          "original" \in DOMAIN disk[n] =>
              n # StubName(disk[n].original, disk[n].original)
    /\ \A p \in DOMAIN pc :
          source[p] = "duplicate" =>
              LET own == File(disk, get_filename(Url(p), Idx(p)))
              IN  ~(own.exists /\ is_valid_pdf(own, MinSize))

\* C38 (as claimed): every DOI in the registry is registered to an item that
\* has a file in output_dir which is_valid_pdf accepts.
C38_RegistryEntriesValid ==
    \A d \in DOMAIN downloaded_dois :
        \E n \in DOMAIN disk :
            /\ Len(n) >= 2 /\ n[1] = "item" /\ IntOf(n[2]) = downloaded_dois[d]
            /\ is_valid_pdf(File(disk, n), MinSize)

\* C17 (as claimed): when the summary is printed every item that was
\* processed is either counted as a success or listed as failed, never both,
\* the count is the number of the items that succeeded, and the list is
\* sorted.
C17_ReportAccountsForAll ==
    report # <<>> =>
        /\ \A p \in DOMAIN pc : CountedSuccess(Idx(p)) # ListedFailed(Idx(p))
        /\ report[1].total_success =
              Cardinality({p \in DOMAIN pc : CountedSuccess(Idx(p))})
        /\ \A j, k \in 1..Len(report[1].total_failed) :
              j < k => report[1].total_failed[j] < report[1].total_failed[k]

---------------------------------------------------------------------------
(* SpecItem: one item, number 1, alone in the checklist, through            *)
(* process_item_fast strategy by strategy and, when the fast chain fails    *)
(* and Playwright is there, through process_item_browser branch by branch.  *)

MaxBranches == 2
MaxFaults   == 2

UrlSupp == <<"https", ":", "/", "/", "doi", ".", "org", "/",
             "10", ".", "1007", "/", "s001", "25">>
IUrls   == {UrlPdf, UrlFull, UrlArxiv, UrlSupp}

\* a paper of exactly 50,000 bytes
Exact == [size |-> 50000, header |-> "%PDF", pages |-> 3]
IContents == {Good, Exact, Html, Truncated}

\* lines 2246 and 2253 for each URL an item can have
INameOf == [u \in IUrls |-> get_filename(u, 1)]
IDoiOf  == [u \in IUrls |-> extract_doi_from_url(u)]

IName == INameOf[iurl]
IDoi  == IDoiOf[iurl]

\* the file at the output path, as is_valid_pdf reads it
IFile ==
    IF ifile = <<>>
    THEN [exists |-> FALSE, size |-> 0, header |-> "", pages |-> -1, name |-> IName]
    ELSE [exists |-> TRUE, size |-> ifile[1].size, header |-> ifile[1].header,
          pages |-> ifile[1].pages, name |-> IName]

\* content c in a file called name, as is_valid_pdf reads it
Named(c, name) ==
    [exists |-> TRUE, size |-> c.size, header |-> c.header, pages |-> c.pages,
     name |-> name]

\* the output path after content c was put there; rejected: is_valid_pdf has
\* returned False for the file at the output path since
AtOutput(c, rejected) ==
    <<[size |-> c.size, header |-> c.header, pages |-> c.pages, rejected |-> rejected]>>

InitItem ==
    /\ iurl \in IUrls
    /\ iplay \in BOOLEAN
    /\ ipc = "start" /\ ik = 1 /\ ititle = <<>> /\ imeta = <<>> /\ icalls = <<>> /\ ibr = 0
    /\ ifile \in {<<>>, AtOutput(Good, FALSE), AtOutput(Html, FALSE)}
    /\ checklist = SRow(1, <<>>, iurl)
    /\ checklist_lock = 0 /\ cl0 = <<>> /\ clTgt = <<>> /\ clPc = <<>>
    /\ clLines = <<>> /\ clBuf = <<>> /\ clRead = <<>>
    /\ IdleV
    /\ IdleX
    /\ IdleS

\* the lock that stays with the item after the with block
LockAfterWith_held(holder) == holder

\* lines 129-137, 143-145, 168-178: the lock after the `with lock:` block
\* is left by its last statement or by a return inside it
LockAfterWith(holder) == 0

\* the item enters a with block: doi_lock in check_duplicate (line 129, past
\* the return of line 127 for an item without a DOI) and in register_doi
\* (line 143, under `if doi`), checklist_lock in update_checklist (line 168)
ItemAcquire ==
    /\ \/ /\ ipc \in {"start", "register", "bregister"}
          /\ IDoi # <<>>
          /\ doi_lock = 0
          /\ doi_lock' = 1
          /\ UNCHANGED checklist_lock
       \/ /\ ipc \in {"mark", "bmark"}
          /\ checklist_lock = 0
          /\ checklist_lock' = 1
          /\ UNCHANGED doi_lock
    /\ UNCHANGED <<varsV, varsX, varsI, checklist, cl0, clTgt, clPc, clLines, clBuf, clRead,
                   opts, disk, downloaded_dois, to_process, pc, source, seen,
                   fast_results, needs_browser, bpc, browser_results, mainpc, report>>

\* lines 2247-2263: no DOI is registered, so check_duplicate returns False
\* from inside its with block; then the test for a file that is there already
ItemStart ==
    /\ ipc = "start"
    /\ IDoi # <<>> => doi_lock = 1
    /\ doi_lock' = LockAfterWith(doi_lock)
    /\ ipc' = IF IFile.exists /\ is_valid_pdf(IFile, MinSize) THEN "mark" ELSE "chain"
    /\ UNCHANGED <<varsV, varsX, varsCL, opts, disk, downloaded_dois, to_process, pc, source, seen,
                   fast_results, needs_browser, bpc, browser_results, mainpc, report,
                   iurl, iplay, imeta, ik, ititle, icalls, ifile, ibr>>

\* the metadata looked up before anything else is tried
MetadataDue_eager(k, title) == k = 1 /\ title = <<>>

\* line 2283 stands between the second strategy and the third: the chain is
\* there when the third strategy is the next one and title is not yet bound
MetadataDue(k, title) == k = 3 /\ title = <<>>

\* line 2283: title, authors = get_paper_metadata(doi) if doi else (None, None);
\* CrossRef is asked (line 525) only for an item with a DOI
Metadata ==
    /\ ipc = "chain" /\ MetadataDue(ik, ititle)
    /\ \E t \in Titles(IDoi) : ititle' = <<t>>
    /\ imeta' = IF IDoi # <<>> THEN Append(imeta, <<IDoi, Len(icalls)>>) ELSE imeta
    /\ UNCHANGED <<varsV, varsX, varsS, varsCL, iurl, iplay, ipc, ik, icalls, ifile, ibr>>

HasTitle == ititle = <<TRUE>>

\* the chain is at strategy ik and its arguments are there
AtStrategy == ipc = "chain" /\ ~MetadataDue(ik, ititle)

\* the chain given up at the first strategy that does not succeed
NextPc_stop(k) == "needs_browser"

\* where the chain goes after strategy k did not succeed
NextPc(k) == IF k = Len(FastOrder) THEN "needs_browser" ELSE "chain"

\* the guard of strategy ik is false (lines 2266, 2334, 2351, 2360)
SkipStrategy ==
    /\ AtStrategy
    /\ ~Invoked(FastOrder[ik], iurl, IDoi, HasTitle, iplay)
    /\ ik' = ik + 1
    /\ ipc' = NextPc(ik)
    /\ UNCHANGED <<varsV, varsX, varsS, varsCL, iurl, iplay, imeta, ititle, icalls, ifile, ibr>>

\* what direct_download leaves at the output path when it fetched content c
\* (lines 364-375): the file if it is valid there, else nothing
DirectDownload(c) ==
    IF is_valid_pdf(Named(c, IName), MinSize)
    THEN [ok |-> TRUE, file |-> AtOutput(c, FALSE)]
    ELSE [ok |-> FALSE, file |-> <<>>]

\* what one mirror of try_scihub leaves (lines 408-419)
SciHubDownload(c) ==
    IF c.size > 50000 /\ is_valid_pdf(Named(c, IName), MinSize)
    THEN [ok |-> TRUE, file |-> AtOutput(c, FALSE)]
    ELSE [ok |-> FALSE, file |-> <<>>]

\* r with the way the strategy ended inside
How(r, how) == [ok |-> r.ok, file |-> r.file, how |-> how]

\* the results strategy s can have.  It returns early or finds no link and
\* the output path is as it was; or it fetches a file and validates it; or,
\* past its early returns, something raises inside its try block (a query
\* that times out, a reply that does not parse) and its except clause makes
\* that (False, None) (lines 624-625, 667-668, 719-720, 744-745, 835-836,
\* 893-894, 936-937, 978-979, 503-504, 788-789); or the download itself
\* times out: direct_download unlinks the partial file and returns False
\* (lines 376-379), try_scihub goes to the next mirror and leaves it (418-419)
StrategyResults(s) ==
    {[ok |-> FALSE, file |-> ifile, how |-> "returned"]}
    \cup (IF ~CanFetch(s, iurl, IDoi, HasTitle, iplay) THEN {}
          ELSE IF s = "scihub"
          THEN {How(SciHubDownload(c), "returned") : c \in IContents}
               \cup {[ok |-> FALSE, file |-> AtOutput(Truncated, FALSE), how |-> "timeout"]}
          ELSE {How(DirectDownload(c), "returned") : c \in IContents})
    \cup (IF /\ CanFetch(s, iurl, IDoi, HasTitle, iplay)
             /\ Len(SelectSeq(icalls, LAMBDA x : x[3] # "returned")) < MaxFaults
          THEN {[ok |-> FALSE, file |-> ifile, how |-> "raised"]}
               \cup (IF s = "scihub" THEN {}
                     ELSE {[ok |-> FALSE, file |-> <<>>, how |-> "timeout"]})
          ELSE {})

\* lines 850-852: the strategy starts a browser of its own
LaunchesBrowser(s, has_title, playwright) ==
    s = "Google Scholar" /\ has_title /\ playwright

\* strategy ik is called (lines 2265-2366)
CallStrategy ==
    /\ AtStrategy
    /\ Invoked(FastOrder[ik], iurl, IDoi, HasTitle, iplay)
    /\ \E r \in StrategyResults(FastOrder[ik]) :
        /\ icalls' = Append(icalls, <<FastOrder[ik], r.ok, r.how>>)
        /\ ifile' = r.file
        /\ ipc' = IF r.ok THEN "mark" ELSE NextPc(ik)
        /\ ik' = IF r.ok THEN ik ELSE ik + 1
    /\ UNCHANGED <<varsV, varsX, varsS, varsCL, iurl, iplay, imeta, ititle, ibr>>

\* update_checklist after a success of either phase
ItemMark ==
    /\ ipc \in {"mark", "bmark"}
    /\ checklist_lock = 1
    /\ checklist' = UpdatedText(checklist, 1)
    /\ checklist_lock' = LockAfterWith(checklist_lock)
    /\ ipc' = IF ipc = "mark" THEN "register" ELSE "bregister"
    /\ UNCHANGED <<varsV, varsX, varsS, cl0, clTgt, clPc, clLines, clBuf, clRead,
                   iurl, iplay, imeta, ik, ititle, icalls, ifile, ibr>>

\* lines 169, 174: open() raises inside the with block of update_checklist;
\* the exception leaves the block and the task
ItemRaise ==
    /\ ipc \in {"mark", "bmark"}
    /\ checklist_lock = 1
    /\ checklist_lock' = LockAfterRaise(checklist_lock)
    /\ ipc' = "raised"
    /\ UNCHANGED <<varsV, varsX, varsS, checklist, cl0, clTgt, clPc, clLines, clBuf, clRead,
                   iurl, iplay, imeta, ik, ititle, icalls, ifile, ibr>>

\* register_doi and the return of a success
ItemRegister ==
    /\ ipc \in {"register", "bregister"}
    /\ IDoi # <<>> => doi_lock = 1
    /\ downloaded_dois' = register_doi(downloaded_dois, IDoi, 1)
    /\ doi_lock' = LockAfterWith(doi_lock)
    /\ ipc' = "resolved"
    /\ UNCHANGED <<varsV, varsX, varsCL, opts, disk, to_process, pc, source, seen,
                   fast_results, needs_browser, bpc, browser_results, mainpc, report,
                   iurl, iplay, imeta, ik, ititle, icalls, ifile, ibr>>

\* phase 2 takes the item: lines 2387-2391 and 1361-1364
BrowserStart ==
    /\ ipc = "needs_browser"
    /\ iplay
    /\ ipc' = "auto"
    /\ UNCHANGED <<varsV, varsX, varsS, varsCL, iurl, iplay, imeta, ik, ititle, icalls, ifile, ibr>>

\* the names a site can suggest for a download
SuggestedNames == {<<"download", ".", "pdf">>, <<"paper", "_", "SI", ".", "pdf">>}

\* lines 1834-1893: the page is loaded; a download it started by itself is
\* saved in the download directory under the suggested name, validated there,
\* and moved to the output path
AutoDownload ==
    /\ ipc = "auto"
    /\ \/ /\ ipc' = "vision"
          /\ UNCHANGED ifile
       \/ \E c \in IContents, n \in SuggestedNames :
            IF c.size > 50000 /\ is_valid_pdf(Named(c, n), MinSize)
            THEN /\ ifile' = AtOutput(c, FALSE)
                 /\ ipc' = "bmark"
            ELSE /\ ipc' = "vision"
                 /\ UNCHANGED ifile
    /\ UNCHANGED <<varsV, varsX, varsS, varsCL, iurl, iplay, imeta, ik, ititle, icalls, ibr>>

\* a download of more than 50,000 bytes is moved (or written) to the output
\* path and validated there: lines 1606-1611, 1648-1653, 1750-1753,
\* 1777-1783, 2055-2061, 2094-2100
MoveThenValidate(c) ==
    IF c.size > 50000
    THEN [ok |-> is_valid_pdf(Named(c, IName), MinSize),
          file |-> AtOutput(c, ~is_valid_pdf(Named(c, IName), MinSize))]
    ELSE [ok |-> FALSE, file |-> ifile]

\* one download branch of the vision analysis and the new-tab handling
\* (lines 1532-1832, 1903-2135): a click that gives a download, or a link
\* fetched with direct_download
VisionBranch ==
    /\ ipc = "vision"
    /\ ibr < MaxBranches
    /\ \E c \in IContents, kind \in {"move", "direct"} :
        LET r == IF kind = "move" THEN MoveThenValidate(c) ELSE DirectDownload(c) IN
        /\ ifile' = r.file
        /\ ipc' = IF r.ok THEN "bmark" ELSE "vision"
    /\ ibr' = ibr + 1
    /\ UNCHANGED <<varsV, varsX, varsS, varsCL, iurl, iplay, imeta, ik, ititle, icalls>>

\* lines 2186 and 2398-2399: no branch gave a file, the item stays unresolved
BrowserFail ==
    /\ ipc = "vision"
    /\ ipc' = "unresolved"
    /\ UNCHANGED <<varsV, varsX, varsS, varsCL, iurl, iplay, imeta, ik, ititle, icalls, ifile, ibr>>

NextItem ==
    \/ ItemAcquire \/ ItemStart \/ Metadata \/ SkipStrategy \/ CallStrategy
    \/ ItemMark \/ ItemRaise \/ ItemRegister
    \/ BrowserStart \/ AutoDownload \/ VisionBranch \/ BrowserFail

SpecItem == InitItem /\ [][NextItem]_vars

\* the place of a strategy in the priority order of the module docstring
C5_Rank(s) ==
    CASE s = "direct" -> 1             [] s = "open_access" -> 2
      [] s = "OpenAlex" -> 3           [] s = "CORE" -> 4
      [] s = "Semantic Scholar" -> 5   [] s = "BASE" -> 6
      [] s = "OpenAIRE" -> 7           [] s = "DOAJ" -> 8
      [] s = "ResearchGate" -> 9       [] s = "12ft.io" -> 10
      [] s = "scihub" -> 11            [] s = "Google Scholar" -> 12

\* whether the guard of the strategy of rank r lets it run for this item
C5_Applicable(r) ==
    CASE r = 1  -> UrlLooksPdf(iurl)
      [] r = 9  -> ititle = <<TRUE>>
      [] r = 11 -> IDoi # <<>>
      [] r = 12 -> ititle = <<TRUE>> /\ iplay
      [] OTHER  -> TRUE

\* C5: the fast strategies are called in the priority order, each at most
\* once; when a strategy is called, every applicable strategy before it has
\* been called and has failed; and after the first success none is called.
C5_OrderedShortCircuit ==
    /\ \A j, k \in 1..Len(icalls) :
          j < k => /\ C5_Rank(icalls[j][1]) < C5_Rank(icalls[k][1])
                   /\ icalls[j][2] = FALSE
    /\ \A k \in 1..Len(icalls) :
          \A r \in 1..(C5_Rank(icalls[k][1]) - 1) :
              C5_Applicable(r) => \E j \in 1..(k - 1) : C5_Rank(icalls[j][1]) = r
    /\ \A k \in 1..Len(icalls) : C5_Applicable(C5_Rank(icalls[k][1]))
    /\ (icalls # <<>> /\ icalls[Len(icalls)][2]) =>
          ipc \in {"mark", "register", "resolved", "raised"}

\* witness: direct and open access failed, OpenAlex failed, CORE succeeded,
\* and the item is resolved
C5_Witness ==
    /\ ipc = "resolved"
    /\ Len(icalls) = 4
    /\ <<icalls[1][1], icalls[1][2]>> = <<"direct", FALSE>>
    /\ <<icalls[2][1], icalls[2][2]>> = <<"open_access", FALSE>>
    /\ <<icalls[3][1], icalls[3][2]>> = <<"OpenAlex", FALSE>>
    /\ <<icalls[4][1], icalls[4][2]>> = <<"CORE", TRUE>>

\* C6 (as claimed): no file that is_valid_pdf has rejected at the output path
\* is still there when the strategy or branch that put it there is over.
C6_RejectedFileDeleted ==
    ifile # <<>> => ~ifile[1].rejected

\* C7 (as claimed): when the item's row is checked, the file at its output
\* path, under its output name, is valid.
C7_CheckedImpliesValid ==
    RowChecked(1) => is_valid_pdf(IFile, MinSize)

\* success only with a validated artifact at the output path
C34_SuccessValidated ==
    ipc = "bmark" => is_valid_pdf(IFile, MinSize)

\* failure leaves no file of the attempt at the output path
C34_FailureLeavesNoFile ==
    ipc = "unresolved" => (ifile = <<>> \/ ~ifile[1].rejected)

\* C34 (as claimed): a browser attempt ends in one of two outcomes: success,
\* with a validated artifact at the output path, or failure, with no file
\* of the attempt left at the output path.
C34_BrowserAttemptOutcomes ==
    C34_SuccessValidated /\ C34_FailureLeavesNoFile

\* C18 (as claimed): no browser is started while the item is in the fast
\* chain of phase 1; browsers are started by the phase-2 attempt only.
C18_BrowserOnlyInPhase2 ==
    \A k \in 1..Len(icalls) : ~LaunchesBrowser(icalls[k][1], HasTitle, iplay)

\* every applicable fast strategy has been called
C19_ChainExhausted ==
    \A r \in 1..Len(FastOrder) :
        C5_Applicable(r) => \E j \in 1..Len(icalls) : C5_Rank(icalls[j][1]) = r

\* C19: a strategy in which something raised or timed out has returned a
\* negative result: the chain goes on with the next strategy and reaches the
\* end of phase 1 only when every applicable strategy has been called; and
\* as long as no strategy has succeeded the row is unchecked and nothing is
\* registered.
C19_RaiseIsNegative ==
    /\ \A k \in 1..Len(icalls) :
          icalls[k][3] \in {"raised", "timeout"} =>
              /\ icalls[k][2] = FALSE
              /\ (k = Len(icalls) /\ ipc = "chain") =>
                    /\ ik > C5_Rank(icalls[k][1])
                    /\ \A r \in (C5_Rank(icalls[k][1]) + 1)..(ik - 1) : ~C5_Applicable(r)
              /\ (k = Len(icalls) /\ ipc # "chain") =>
                    /\ ipc \in {"needs_browser", "auto", "vision", "bmark", "bregister",
                                 "resolved", "unresolved", "raised"}
                    /\ C19_ChainExhausted
    /\ ipc \in {"chain", "needs_browser"} =>
          /\ ~RowChecked(1)
          /\ downloaded_dois = <<>>

\* witness: the OpenAlex lookup raised, the download that CORE found timed
\* out, Semantic Scholar then gave the paper, and the item is resolved
C19_Witness ==
    /\ ipc = "resolved"
    /\ \E k \in 1..(Len(icalls) - 2) :
        /\ icalls[k] = <<"OpenAlex", FALSE, "raised">>
        /\ icalls[k + 1] = <<"CORE", FALSE, "timeout">>
        /\ icalls[k + 2] = <<"Semantic Scholar", TRUE, "returned">>

\* C29: CrossRef is asked for an item's metadata at most once, for its own
\* DOI, and only after the direct download (when the URL looks like a PDF)
\* and the open-access patterns were called and failed; every later strategy
\* is called after that one lookup, with the title it bound; an item without
\* a DOI, or one resolved before the third strategy, is never looked up.
C29_MetadataOnceAndLazy ==
    LET doi == IDoi IN
    /\ Len(imeta) <= 1
    /\ doi = <<>> => imeta = <<>>
    /\ \A m \in 1..Len(imeta) :
          /\ imeta[m][1] = doi
          /\ \A j \in 1..imeta[m][2] :
                icalls[j][1] \in {"direct", "open_access"} /\ ~icalls[j][2]
          /\ \E j \in 1..imeta[m][2] : icalls[j][1] = "open_access"
          /\ UrlLooksPdf(iurl) => \E j \in 1..imeta[m][2] : icalls[j][1] = "direct"
    /\ (icalls = <<>> \/ (icalls[Len(icalls)][2] /\ C5_Rank(icalls[Len(icalls)][1]) <= 2))
          => imeta = <<>>
    /\ \A k \in 1..Len(icalls) :
          C5_Rank(icalls[k][1]) >= 3 =>
              /\ ititle # <<>>
              /\ doi # <<>> => (Len(imeta) = 1 /\ imeta[1][2] < k)

\* witness: one lookup that found a title, used by OpenAlex and, six
\* strategies later, by ResearchGate
C29_Witness ==
    /\ Len(imeta) = 1 /\ HasTitle
    /\ \E j, k \in 1..Len(icalls) :
          /\ icalls[j][1] = "OpenAlex" /\ icalls[k][1] = "ResearchGate"
          /\ imeta[1][2] < j
    /\ ipc = "resolved"

\* C30: while the item is at a network call, a subprocess or a browser step
\* (the fast chain with its metadata lookup, the browser attempt) it holds
\* neither lock; doi_lock is held only inside check_duplicate and
\* register_doi, checklist_lock only inside update_checklist, never both; and
\* when the task is over, by a result or by an exception, both are free.
C30_NoLockAcrossIO ==
    /\ ipc \in {"chain", "needs_browser", "auto", "vision"} =>
          doi_lock = 0 /\ checklist_lock = 0
    /\ doi_lock # 0 => ipc \in {"start", "register", "bregister"}
    /\ checklist_lock # 0 => ipc \in {"mark", "bmark"}
    /\ doi_lock = 0 \/ checklist_lock = 0
    /\ ipc \in {"resolved", "unresolved", "raised"} => doi_lock = 0 /\ checklist_lock = 0

\* witness: after the fast chain and a browser branch the row was checked
\* under checklist_lock, that lock is free again, and the item is inside
\* register_doi with doi_lock
C30_Witness ==
    /\ ipc = "bregister" /\ doi_lock = 1 /\ checklist_lock = 0
    /\ RowChecked(1) /\ ibr > 0 /\ icalls # <<>>

---------------------------------------------------------------------------
(* SpecFn: the identifier of one row from its URL to the registry of the    *)
(* next start.  process_item_fast computes doi = extract_doi_from_url(url)  *)
(* (line 2247), the artifact is saved under get_filename(url, index) (line  *)
(* 2254), and the next run rebuilds the registry from the file names with   *)
(* init_downloaded_dois (line 2440).  The URL is a publisher address, a DOI *)
(* and what the publisher puts behind the DOI.                              *)

FItems == 2

\* the addresses in front of the DOI
FCarriers ==
    { <<"https", ":", "/", "/", "doi", ".", "org", "/">>,
      <<"https", ":", "/", "/", "x", ".", "org", "/", "doi", "/">> }

\* DOIs: a plain one, one with an underscore, one with a further slash, one
\* that ends in ".pdf", and an article of nature.com
FDois ==
    { <<"10", ".", "1002", "/", "abc">>,
      <<"10", ".", "1002", "/", "a", "_", "b">>,
      <<"10", ".", "1002", "/", "a", "/", "b">>,
      <<"10", ".", "1002", "/", "abc", ".", "pdf">>,
      <<"10", ".", "1038", "/", "s441">> }

\* lines 199-202: the suffixes extract_doi_from_url removes
DoiSuffixes ==
    {<<".", "pdf">>, <<"/", "pdf">>, <<"/", "full">>, <<"/", "abstract">>}

\* the address of nature.com for an article of the publisher
NatureUrl(id) ==
    <<"https", ":", "/", "/", "www", ".", "nature", ".", "com", "/", "articles", "/">> \o id

\* the URL of a row: the DOI behind the address, or the article page of
\* nature.com for a DOI of that publisher, then the suffix
FUrlOf(car, doi, suf) ==
    (IF SubSeq(doi, 1, 4) = <<"10", ".", "1038", "/">>
     THEN NatureUrl(SubSeq(doi, 5, Len(doi)))
     ELSE car \o doi) \o suf

FUrl == FUrlOf(fcar, fdoi, fsuf)

InitFn ==
    /\ fcar \in FCarriers
    /\ fdoi \in FDois
    /\ fsuf \in DoiSuffixes \cup {<<>>}
    /\ fidx \in 1..FItems
    /\ fpc = "start" /\ fkey = <<>> /\ fname = <<>> /\ freg = <<>>
    /\ IdleR
    /\ IdleB
    /\ IdleY
    /\ IdleV
    /\ IdleCL
    /\ IdleS
    /\ IdleI

\* line 2247
FnExtract ==
    /\ fpc = "start"
    /\ fkey' = <<extract_doi_from_url(FUrl)>>
    /\ fpc' = "keyed"
    /\ UNCHANGED <<varsV, varsCL, varsS, varsI, varsY, varsR, varsB, fcar, fdoi, fsuf, fidx, fname, freg>>

\* lines 2254-2255: the name of the artifact
FnSave ==
    /\ fpc = "keyed"
    /\ fname' = get_filename(FUrl, fidx)
    /\ fpc' = "saved"
    /\ UNCHANGED <<varsV, varsCL, varsS, varsI, varsY, varsR, varsB, fcar, fdoi, fsuf, fidx, fkey, freg>>

\* line 2440 of the next run, the artifact being the one file of output_dir
FnScan ==
    /\ fpc = "saved"
    /\ freg' \in init_downloaded_dois([n \in {fname} |-> Good])
    /\ fpc' = "scanned"
    /\ UNCHANGED <<varsV, varsCL, varsS, varsI, varsY, varsR, varsB, fcar, fdoi, fsuf, fidx, fkey, fname>>

NextFn == FnExtract \/ FnSave \/ FnScan

SpecFn == InitFn /\ [][NextFn]_vars

\* C24: a URL that carries a DOI followed by .pdf, /pdf, /full or /abstract
\* gives the same identifier as the URL that carries the DOI alone.
C24_SuffixNormalised ==
    fpc # "start" => fkey = <<extract_doi_from_url(FUrlOf(fcar, fdoi, <<>>))>>

\* C27: the registry built at the next start from the artifact saved for
\* item fidx has the entry  key -> fidx  for the key extract_doi_from_url
\* gave for the row's URL.
C27_ScanRoundTrip ==
    (fpc = "scanned" /\ fkey # <<<<>>>>) =>
        /\ fkey[1] \in DOMAIN freg
        /\ freg[fkey[1]] = fidx

---------------------------------------------------------------------------
(* SpecRank: find_elements_by_vision_description (lines 1112-1293), the     *)
(* matcher that turns what the vision model said of the download button     *)
(* into a ranked list of the page's clickable elements.  An element is what *)
(* the function reads of it: is_visible(), inner_text(), the attributes     *)
(* class, href and title, and the centre of bounding_box() as percentages   *)
(* of the viewport (<<>>: no box).                                          *)

RElems == 3

\* page.url
RPageUrl ==
    <<"https", ":", "/", "/", "www", ".", "publisher", ".", "com", "/", "doi", "/",
      "10", ".", "1002", "/", "abc">>

\* the href attributes of the elements
HrefSame   == <<"https", ":", "/", "/", "www", ".", "publisher", ".", "com", "/", "doi", "/",
                "pdf", "/", "10", ".", "1002", "/", "abc">>
HrefRel    == <<"/", "doi", "/", "pdf", "/", "10", ".", "1002", "/", "abc">>
HrefAds    == <<"https", ":", "/", "/", "ads", ".", "tracker", ".", "com", "/", "x", ".", "pdf">>
HrefDoi    == <<"https", ":", "/", "/", "doi", ".", "org", "/", "10", ".", "1002", "/", "abc">>
HrefArxiv  == <<"https", ":", "/", "/", "arxiv", ".", "org", "/", "pdf", "/", "2301", ".", "00001">>
HrefPubmed == <<"https", ":", "/", "/", "pubmed", ".", "ncbi", ".", "nlm", ".", "nih", ".", "gov",
                "/", "478">>
HrefPmc    == <<"https", ":", "/", "/", "pmc", ".", "ncbi", ".", "nlm", ".", "nih", ".", "gov",
                "/", "articles", "/", "PMC", "478">>
HrefMydoi  == <<"https", ":", "/", "/", "my", "doi", ".", "org", "/", "x", ".", "pdf">>
RHrefs ==
    {HrefSame, HrefRel, <<>>, HrefAds, HrefDoi, HrefArxiv, HrefPubmed, HrefPmc, HrefMydoi}

RTexts == {<<"Download", " ", "PDF">>, <<"Cite">>}

\* the elements of a page
RElemSet ==
    [visible : {TRUE}, text : RTexts, class : {<<>>}, href : RHrefs, title : {<<>>},
     box : {<<>>}]
    \cup [visible : BOOLEAN, text : {<<"Download", " ", "PDF">>}, class : {<<"btn", "-", "pdf">>},
          href : {HrefSame}, title : {<<>>}, box : {<<85, 10>>}]

\* what the vision model can say
RVisions ==
    [element_text : {<<"Download", " ", "PDF">>},
     distinctive_features : {<< <<"pdf">> >>},
     position : {<<>>, <<"top", " ", "right">>}]

\* str.split(): the words of s
SplitWords(s) ==
    {SubSeq(s, x[1], x[2]) : x \in
        {x \in (1..Len(s)) \X (1..Len(s)) :
            /\ x[1] <= x[2]
            /\ \A k \in x[1]..x[2] : s[k] \notin WS
            /\ (x[1] = 1 \/ s[x[1] - 1] \in WS)
            /\ (x[2] = Len(s) \/ s[x[2] + 1] \in WS)}}

\* lines 1170-1171: the lower-case words of more than two characters
KeyWords(s) == {LowerStr(w) : w \in {v \in SplitWords(s) : CharLenUpTo3(v) > 2}}

\* lines 1160-1182: the score of the element's text against element_text
TextScore(element_text, elem_text) ==
    (IF elem_text = element_text THEN 100
     ELSE IF LowerStr(elem_text) = LowerStr(element_text) THEN 95
     ELSE IF Contains(LowerStr(elem_text), LowerStr(element_text)) THEN 60
     ELSE 0)
    + (IF /\ KeyWords(element_text) # {} /\ KeyWords(elem_text) # {}
          /\ 2 * Cardinality(KeyWords(element_text) \cap KeyWords(elem_text))
                > Cardinality(KeyWords(element_text))
       THEN 40 ELSE 0)
    + (IF Contains(LowerStr(element_text), <<"pdf">>) /\ Contains(LowerStr(elem_text), <<"pdf">>)
       THEN 30 ELSE 0)
    + (IF /\ Contains(LowerStr(element_text), <<"download">>)
          /\ Contains(LowerStr(elem_text), <<"download">>)
       THEN 25 ELSE 0)

\* urlparse(url).netloc
Netloc(url) ==
    LET start == IF IsPrefixAt(<<":", "/", "/">>, url, 2) THEN 5
                 ELSE IF IsPrefixAt(<<"/", "/">>, url, 1) THEN 3 ELSE 0
    IN  IF start = 0 THEN <<>>
        ELSE SubSeq(url, start, RunNotIn(url, start, {"/", "?"}))

\* lines 1125, 1193: '.'.join(host.split('.')[-2:])
DomainBase(host) ==
    LET dots == {k \in 1..Len(host) : host[k] = "."} IN
    IF Cardinality(dots) < 2 THEN host
    ELSE LET last == CHOOSE k \in dots : \A y \in dots : y <= k
             prev == CHOOSE k \in dots \ {last} : \A y \in dots \ {last} : y <= k
         IN  SubSeq(host, prev + 1, Len(host))

\* line 1198
academic_domains ==
    << <<"doi", ".", "org">>, <<"arxiv", ".", "org">>,
       <<"pubmed", ".", "ncbi", ".", "nlm", ".", "nih", ".", "gov">>,
       <<"pmc", ".", "ncbi", ".", "nlm", ".", "nih", ".", "gov">> >>

\* lines 1189-1207: what the domain filter makes of an href on a page:
\* "skip" (penalty and continue), "academic", "same", or "none" (no test)
DomainVerdict(elem_href, page_url) ==
    LET page_domain_base == DomainBase(Netloc(page_url))
        href_domain == Netloc(elem_href)
        href_domain_base == IF href_domain # <<>> THEN DomainBase(href_domain) ELSE <<>>
    IN  IF elem_href # <<>> /\ page_domain_base # <<>>
        THEN IF href_domain_base # <<>> /\ href_domain_base # page_domain_base
             THEN IF \E k \in 1..Len(academic_domains) :
                        Contains(href_domain_base, academic_domains[k])
                  THEN "academic" ELSE "skip"
             ELSE "same"
        ELSE "none"

\* lines 1201-1207: the change of the score
DomainDelta(verdict) ==
    CASE verdict = "skip" -> -200 [] verdict = "academic" -> 5
      [] verdict = "same" -> 30   [] OTHER -> 0

\* lines 1185-1186 and 1211-1214
HrefScore(elem_href) ==
    (IF Contains(elem_href, <<"pdf">>) THEN 20 ELSE 0)
    + (IF elem_href # <<>> /\ (\/ Contains(elem_href, <<"/", "article", "/">>)
                               \/ Contains(elem_href, <<"/", "doi", "/">>)
                               \/ Contains(elem_href, <<"/", "pdf">>))
       THEN 25 ELSE 0)

\* lines 1217-1226
RECURSIVE FeatureScore(_, _)
FeatureScore(features, e) ==
    IF features = <<>> THEN 0
    ELSE LET feature_lower == LowerStr(Head(features)) IN
         (IF Contains(LowerStr(e.class), feature_lower) THEN 15 ELSE 0)
         + (IF Contains(LowerStr(e.href), feature_lower) THEN 15 ELSE 0)
         + (IF Contains(LowerStr(e.title), feature_lower) THEN 10 ELSE 0)
         + (IF Contains(feature_lower, <<"pdf">>) /\ Contains(LowerStr(e.text), <<"pdf">>)
            THEN 10 ELSE 0)
         + FeatureScore(Tail(features), e)

\* lines 1229-1270: the position named by the vision model against the
\* centre of the element, x and y in percent of the viewport
PositionScore(position_desc, box) ==
    IF position_desc = <<>> \/ box = <<>> THEN 0
    ELSE LET has(w) == Contains(position_desc, w)
             x == box[1]
             y == box[2]
             side ==
                IF (has(<<"top">>) \/ has(<<"above">>)) /\ y < 30 THEN 40
                ELSE IF (has(<<"bottom">>) \/ has(<<"below">>)) /\ y > 70 THEN 40
                ELSE IF has(<<"right">>) /\ x > 70 THEN 40
                ELSE IF has(<<"left">>) /\ x < 30 THEN 40
                ELSE IF (has(<<"center">>) \/ has(<<"middle">>))
                        /\ 30 < x /\ x < 70 /\ 30 < y /\ y < 70 THEN 40
                ELSE 0
             bar == IF (has(<<"toolbar">>) \/ has(<<"header">>)
                        \/ has(<<"below", " ", "title">>)) /\ y < 20 THEN 50 ELSE 0
             near == IF (has(<<"below", " ", "title">>) \/ has(<<"near", " ", "title">>))
                        /\ y < 30 THEN 45 ELSE 0
             position_score == side + bar + near
         IN  position_score + (IF position_score > 30 THEN 30 ELSE 0)

\* the score of an element that gets to line 1273
ElemScore(vision, e, page_url) ==
    TextScore(Strip(vision.element_text), Strip(e.text))
    + HrefScore(LowerStr(e.href))
    + DomainDelta(DomainVerdict(LowerStr(e.href), page_url))
    + FeatureScore(vision.distinctive_features, e)
    + PositionScore(LowerStr(vision.position), e.box)

\* lines 1142-1144 and 1201-1203: the element is left out before line 1273
LeftOut(e, page_url) ==
    ~e.visible \/ DomainVerdict(LowerStr(e.href), page_url) = "skip"

\* the sort that puts the later of two equal scores first
SortedByScore_tiesReversed(c) ==
    LET before(i, j) == c[i].score > c[j].score \/ (c[i].score = c[j].score /\ i > j)
        place(i) == Cardinality({j \in 1..Len(c) : before(j, i)}) + 1
    IN  [k \in 1..Len(c) |-> c[CHOOSE i \in 1..Len(c) : place(i) = k]]

\* line 1293: sorted(candidates, key=lambda x: x[0], reverse=True); the sort
\* is stable, also with reverse
SortedByScore(c) ==
    LET before(i, j) == c[i].score > c[j].score \/ (c[i].score = c[j].score /\ i < j)
        place(i) == Cardinality({j \in 1..Len(c) : before(j, i)}) + 1
    IN  [k \in 1..Len(c) |-> c[CHOOSE i \in 1..Len(c) : place(i) = k]]

InitRank ==
    /\ rvis \in RVisions
    /\ relems \in [1..RElems -> RElemSet]
    /\ ri = 1 /\ rcands = <<>> /\ rout = <<>> /\ rpc = "loop"
    /\ IdleF
    /\ IdleB
    /\ IdleY
    /\ IdleV
    /\ IdleCL
    /\ IdleS
    /\ IdleI

\* lines 1141-1290: one turn of the loop over all_clickables
RankVisit ==
    /\ rpc = "loop"
    /\ ri <= Len(relems)
    /\ rcands' =
          IF /\ ~LeftOut(relems[ri], RPageUrl)
             /\ ElemScore(rvis, relems[ri], RPageUrl) > 10
          THEN Append(rcands, [score |-> ElemScore(rvis, relems[ri], RPageUrl), elem |-> ri])
          ELSE rcands
    /\ ri' = ri + 1
    /\ UNCHANGED <<varsV, varsCL, varsS, varsI, varsY, varsF, varsB, rvis, relems, rout, rpc>>

\* line 1293
RankReturn ==
    /\ rpc = "loop"
    /\ ri > Len(relems)
    /\ rout' = <<SortedByScore(rcands)>>
    /\ rpc' = "returned"
    /\ UNCHANGED <<varsV, varsCL, varsS, varsI, varsY, varsF, varsB, rvis, relems, ri, rcands>>

NextRank == RankVisit \/ RankReturn

SpecRank == InitRank /\ [][NextRank]_vars

\* the list returned and the elements it names
ROut == rout[1]
Returned_elems == {ROut[k].elem : k \in 1..Len(ROut)}

ForeignLink(e) ==
    LET host == Netloc(LowerStr(e.href)) IN
    /\ host # <<>>
    /\ DomainBase(host) # DomainBase(Netloc(RPageUrl))
    /\ \A k \in 1..Len(academic_domains) : host # academic_domains[k]

\* C22: an element whose link goes to another domain than the page's, not
\* on the whitelist, is never in the list returned.
C22_ForeignNeverReturned ==
    rpc = "returned" => \A i \in Returned_elems : ~ForeignLink(relems[i])

\* C23: an element whose link goes to doi.org, arxiv.org,
\* pubmed.ncbi.nlm.nih.gov or pmc.ncbi.nlm.nih.gov is not penalised: when
\* its other matches with the small bonus bring it above 10, it is in the
\* list returned.
C23_WhitelistedStays ==
    rpc = "returned" =>
        \A i \in 1..Len(relems) :
            LET e == relems[i]
                others == ElemScore(rvis, e, RPageUrl)
                            - DomainDelta(DomainVerdict(LowerStr(e.href), RPageUrl))
            IN  (/\ e.visible
                 /\ \E k \in 1..Len(academic_domains) :
                        Netloc(LowerStr(e.href)) = academic_domains[k]
                 /\ others + 5 > 10)
                => i \in Returned_elems

---------------------------------------------------------------------------
(* SpecBrowser: one call of process_item_browser (lines 2380-2399) with the *)
(* try_browser_download it makes (lines 1361-2198), Playwright being there: *)
(* the page is loaded, each of the two screenshots is taken unless its file *)
(* exists, and try_vision_analysis (lines 1903-2135) asks the vision model  *)
(* about it, matches the answer against the page and works through the      *)
(* first candidates.  alog keeps every call as <<name, target, variant>>.   *)

MaxCands == 2

\* the DOI of the item
ItemDoi == <<"10", ".", "1002", "/", "abc">>

\* what the loop of line 1930 reads of a candidate: whether its href looks
\* like a PDF link (line 1952), the href, and the DOI in the href
ACands ==
    { [pdf |-> FALSE, href |-> "hrefA", doi |-> <<>>],
      [pdf |-> TRUE,  href |-> "hrefA", doi |-> <<>>],
      [pdf |-> TRUE,  href |-> "hrefB", doi |-> ItemDoi] }

\* the lists find_elements_by_vision_description can return, cut at line 1930
ACandLists == UNION {[1..n -> ACands] : n \in 0..MaxCands}

\* the vision model asked whatever the mode
VisionAnswers_always(only) == BOOLEAN

\* lines 984-986 and 1105-1109: whether analyze_screenshot_with_claude can
\* return a result
VisionAnswers(only) == IF only THEN {FALSE} ELSE BOOLEAN

\* lines 1955-2114: the calls made for one candidate, in this order
ASteps ==
    <<"direct_stealth", "direct_plain", "OpenAlex", "CORE", "Semantic Scholar",
      "navigate", "direct_final">>

\* line 1967: doi = extract_doi_from_url(href_absolute) or extract_doi_from_url(page.url)
CandDoi(c) == IF c.doi # <<>> THEN c.doi ELSE apagedoi

\* the guards of lines 1952, 1968, 2002 and 2112
StepApplies(k, c) ==
    /\ c.pdf
    /\ k \in {3, 4, 5} => CandDoi(c) # <<>>

\* the call of step k on candidate c; cur is the address of the new page
\* after the navigation of line 2023
StepCall(k, c, cur) ==
    CASE k = 1 -> <<"direct_download", c.href, "stealth">>
      [] k = 2 -> <<"direct_download", c.href, "plain">>
      [] k = 3 -> <<"OpenAlex", CandDoi(c), "">>
      [] k = 4 -> <<"CORE", CandDoi(c), "">>
      [] k = 5 -> <<"Semantic Scholar", CandDoi(c), "">>
      [] k = 6 -> <<"navigate", c.href, "">>
      [] k = 7 -> <<"direct_download", cur, "stealth">>

InitBrowser ==
    /\ aonly \in BOOLEAN
    /\ apagedoi \in {<<>>, ItemDoi}
    /\ ashots0 \in SUBSET {"top", "bottom"}
    /\ ashots = ashots0
    /\ apc = "start" /\ aregion = "" /\ acands = <<>> /\ aci = 0 /\ astep = 0
    /\ alog = <<>> /\ ares = <<>>
    /\ IdleF
    /\ IdleR
    /\ IdleY
    /\ IdleV
    /\ IdleCL
    /\ IdleS
    /\ IdleI

\* lines 2392-2394: try_browser_download returned a success and
\* process_item_browser calls update_checklist
Checked == <<"update_checklist", "", "">>

\* lines 2382-2391 and 1494: the skip of --screenshots-only, else the browser
AStart ==
    /\ apc = "start"
    /\ IF aonly /\ ashots = {"top", "bottom"}
       THEN /\ ares' = <<"skipped_screenshots_exist">>
            /\ apc' = "done"
            /\ UNCHANGED alog
       ELSE /\ alog' = Append(alog, <<"launch", "", "">>)
            /\ apc' = "load"
            /\ UNCHANGED ares
    /\ UNCHANGED <<varsV, varsCL, varsS, varsI, varsY, varsF, varsR, aonly, apagedoi, ashots0, ashots,
                   aregion, acands, aci, astep>>

\* lines 1834-1893: the page is loaded; a download it starts by itself can
\* be the paper
ALoad ==
    /\ apc = "load"
    /\ \/ /\ ares' = <<"browser", "Browser+AutoDownload">>
          /\ alog' = Append(alog, Checked)
          /\ apc' = "done"
          /\ UNCHANGED aregion
       \/ /\ apc' = "shot"
          /\ aregion' = "top"
          /\ UNCHANGED <<ares, alog>>
    /\ UNCHANGED <<varsV, varsCL, varsS, varsI, varsY, varsF, varsR, aonly, apagedoi, ashots0, ashots,
                   acands, aci, astep>>

\* lines 2146-2151 and 2161-2170: the screenshot of the region, unless its
\* file is there
AShot ==
    /\ apc = "shot"
    /\ IF aregion \in ashots
       THEN UNCHANGED <<ashots, alog>>
       ELSE /\ ashots' = ashots \cup {aregion}
            /\ alog' = Append(alog, <<"screenshot", aregion, "">>)
    /\ apc' = "analyze"
    /\ UNCHANGED <<varsV, varsCL, varsS, varsI, varsY, varsF, varsR, aonly, apagedoi, ashots0,
                   aregion, acands, aci, astep, ares>>

\* the region gave nothing: lines 2160 and 2182-2186
RegionFailed ==
    IF aregion = "top"
    THEN /\ aregion' = "bottom"
         /\ apc' = "shot"
         /\ UNCHANGED ares
    ELSE /\ ares' = <<"failed", "Vision system could not identify PDF download element">>
         /\ apc' = "done"
         /\ UNCHANGED aregion

\* lines 1905-1908 and 982-1109: analyze_screenshot_with_claude; the vision
\* model is asked unless the mode is --screenshots-only
AAnalyze ==
    /\ apc = "analyze"
    /\ \E found \in VisionAnswers(aonly) :
        /\ alog' = IF aonly THEN alog ELSE Append(alog, <<"vision_api", aregion, "">>)
        /\ IF found
           THEN /\ apc' = "match"
                /\ UNCHANGED <<aregion, ares>>
           ELSE RegionFailed
    /\ UNCHANGED <<varsV, varsCL, varsS, varsI, varsY, varsF, varsR, aonly, apagedoi, ashots0, ashots,
                   acands, aci, astep>>

\* the exception leaves try_browser_download and the task
VisionRaised_propagates ==
    /\ ares' = <<"raised", "">>
    /\ apc' = "done"
    /\ UNCHANGED aregion

\* lines 2182-2186: an exception inside the vision block is caught and
\* printed, and the attempt returns its failure; the other region is not tried
VisionRaised ==
    /\ ares' = <<"failed", "Vision system could not identify PDF download element">>
    /\ apc' = "done"
    /\ UNCHANGED aregion

\* lines 1911-1916: the matcher; it returns its list, or raises before its
\* first try block (line 1118, an answer whose element_text is null)
AMatch ==
    /\ apc = "match"
    /\ \/ \E cands \in ACandLists :
            /\ acands' = cands
            /\ alog' = Append(alog, <<"match", aregion, "">>)
            /\ IF cands = <<>>
               THEN RegionFailed /\ UNCHANGED <<aci, astep>>
               ELSE /\ apc' = "cand" /\ aci' = 1 /\ astep' = 1
                    /\ UNCHANGED <<aregion, ares>>
       \/ /\ alog' = Append(alog, <<"match raised", aregion, "">>)
          /\ VisionRaised
          /\ UNCHANGED <<acands, aci, astep>>
    /\ UNCHANGED <<varsV, varsCL, varsS, varsI, varsY, varsF, varsR, aonly, apagedoi, ashots0, ashots>>

\* the loop of line 1930 goes on after step k of candidate aci
StepOn(k) ==
    IF k < Len(ASteps)
    THEN /\ astep' = k + 1
         /\ UNCHANGED <<aci, apc, aregion, ares>>
    ELSE IF aci < Len(acands)
    THEN /\ aci' = aci + 1 /\ astep' = 1
         /\ UNCHANGED <<apc, aregion, ares>>
    ELSE RegionFailed /\ UNCHANGED <<aci, astep>>

\* lines 1930-2130: the next step on candidate aci: a call that gives the
\* paper (return True), a call that does not, or a step whose guard is
\* false; the navigation can end on an error page (line 2071: continue)
ACandStep ==
    /\ apc = "cand"
    /\ LET c == acands[aci] IN
       IF ~StepApplies(astep, c)
       THEN StepOn(astep) /\ UNCHANGED alog
       ELSE \E cur \in IF astep = 7 THEN {c.href, "redirected"} ELSE {c.href},
               end \in IF astep = 6 THEN {"paper", "nothing", "error page"}
                       ELSE {"paper", "nothing"} :
               /\ alog' = IF end = "paper"
                          THEN alog \o <<StepCall(astep, c, cur), Checked>>
                          ELSE Append(alog, StepCall(astep, c, cur))
               /\ CASE end = "paper" ->
                          /\ ares' = <<"browser", "Browser+Vision">>
                          /\ apc' = "done"
                          /\ UNCHANGED <<aci, astep, aregion>>
                    [] end = "nothing" -> StepOn(astep)
                    [] OTHER -> StepOn(Len(ASteps))
    /\ UNCHANGED <<varsV, varsCL, varsS, varsI, varsY, varsF, varsR, aonly, apagedoi, ashots0, ashots,
                   acands>>

NextBrowser == AStart \/ ALoad \/ AShot \/ AAnalyze \/ AMatch \/ ACandStep

SpecBrowser == InitBrowser /\ [][NextBrowser]_vars

\* the names under which alog keeps the calls that look for the paper
Acquisitions == {"direct_download", "OpenAlex", "CORE", "Semantic Scholar", "navigate"}

LastCall == alog[Len(alog)]

\* C33: when the vision model gives no description of a screenshot, or the
\* matcher returns no candidate for it, or the matcher raises, the attempt
\* is not ended by an exception: it goes on with the bottom screenshot or
\* returns the failure of line 2186, and the row is not checked.
C33_MatcherInputErrorIsFailure ==
    /\ (ares # <<>>) => ares[1] \in {"browser", "failed", "skipped_screenshots_exist"}
    /\ (alog # <<>> /\ LastCall[1] \in {"vision_api", "match", "match raised"}) =>
          \/ apc = "match" /\ LastCall[1] = "vision_api"
          \/ apc = "cand" /\ LastCall[1] = "match" /\ acands # <<>>
          \/ apc \in {"shot", "analyze"} /\ aregion = "bottom" /\ LastCall[2] = "top"
          \/ /\ apc = "done"
             /\ ares = <<"failed", "Vision system could not identify PDF download element">>
    /\ (ares # <<>> /\ ares[1] # "browser") =>
          \A k \in 1..Len(alog) : alog[k] # Checked

\* witness: the vision model described nothing on the top screenshot, it
\* described a button on the bottom one, the matcher found no candidate,
\* and the attempt returned its failure
C33_Witness ==
    /\ apc = "done" /\ ares # <<>> /\ ares[1] = "failed"
    /\ acands = <<>>
    /\ LastCall = <<"match", "bottom", "">>
    /\ \E k \in 1..Len(alog) : alog[k] = <<"vision_api", "top", "">>
    /\ \A k \in 1..Len(alog) : alog[k][1] # "match" \/ k = Len(alog)

\* C28: within one browser attempt the OpenAlex, CORE and Semantic Scholar
\* lookups are made at most once each for a DOI, whatever the number of
\* candidates.
C28_NoStrategyRetried ==
    \A j, k \in 1..Len(alog) :
        (j < k /\ alog[j][1] \in {"OpenAlex", "CORE", "Semantic Scholar"})
            => alog[j] # alog[k]

---------------------------------------------------------------------------
(* SpecRate: the rate-limiting blocks of try_openalex (lines 566-570) and   *)
(* try_base_api (lines 638-642), run by the phase-1 workers side by side.   *)
(* Each block reads the clock, reads last_api_call, may sleep, and writes   *)
(* last_api_call; the source takes no lock around any of it, so the steps   *)
(* of the workers interleave freely.                                        *)

RateWorkers == 2
MaxClock    == 3
MaxCalls    == 2

\* the keys of last_api_call that are used
ApiKeys == {"openalex", "base"}

\* lines 568, 640: the interval in tenths of a second, also the time slept
Interval(key) == IF key = "openalex" THEN 1 ELSE 2

InitRate ==
    /\ lclock = 0
    /\ last_api_call = [k \in ApiKeys |-> 0]
    /\ lpc = [w \in 1..RateWorkers |-> "idle"]
    /\ lapi = [w \in 1..RateWorkers |-> "openalex"]
    /\ lcur = [w \in 1..RateWorkers |-> 0]
    /\ lcalls = [w \in 1..RateWorkers |-> 0]
    /\ llog = <<>>
    /\ IdleRestL

\* time passes
RateTick ==
    /\ lclock < MaxClock
    /\ lclock' = lclock + 1
    /\ UNCHANGED <<restL, last_api_call, lpc, lapi, lcur, lcalls, llog>>

\* lines 2286, 2310: the chain of worker w calls try_openalex or try_base_api
RateEnter(w, key) ==
    /\ lpc[w] = "idle"
    /\ lcalls[w] < MaxCalls
    /\ lcalls' = [lcalls EXCEPT ![w] = @ + 1]
    /\ lapi' = [lapi EXCEPT ![w] = key]
    /\ lpc' = [lpc EXCEPT ![w] = "time"]
    /\ UNCHANGED <<restL, lclock, last_api_call, lcur, llog>>

\* lines 567, 639: current_time = rate_time.time()
RateTime(w) ==
    /\ lpc[w] = "time"
    /\ lcur' = [lcur EXCEPT ![w] = lclock]
    /\ lpc' = [lpc EXCEPT ![w] = "test"]
    /\ UNCHANGED <<restL, lclock, last_api_call, lapi, lcalls, llog>>

\* lines 568, 640: the read of last_api_call[key]
RateTest(w) ==
    /\ lpc[w] = "test"
    /\ lpc' = [lpc EXCEPT ![w] =
                 IF lcur[w] - last_api_call[lapi[w]] < Interval(lapi[w])
                 THEN "sleep" ELSE "store"]
    /\ UNCHANGED <<restL, lclock, last_api_call, lapi, lcur, lcalls, llog>>

\* lines 569, 641: rate_time.sleep; the clock is later by the interval at least
RateSleep(w) ==
    /\ lpc[w] = "sleep"
    /\ lclock' = lclock + Interval(lapi[w])
    /\ lpc' = [lpc EXCEPT ![w] = "store"]
    /\ UNCHANGED <<restL, last_api_call, lapi, lcur, lcalls, llog>>

\* lines 570, 642: last_api_call[key] = current_time
RateStore(w) ==
    /\ lpc[w] = "store"
    /\ last_api_call' = [last_api_call EXCEPT ![lapi[w]] = lcur[w]]
    /\ lpc' = [lpc EXCEPT ![w] = "query"]
    /\ UNCHANGED <<restL, lclock, lapi, lcur, lcalls, llog>>

\* lines 572-588, 644-652: the query is sent to the API
RateQuery(w) ==
    /\ lpc[w] = "query"
    /\ llog' = Append(llog, <<lapi[w], w, lclock>>)
    /\ lpc' = [lpc EXCEPT ![w] = "idle"]
    /\ UNCHANGED <<restL, lclock, last_api_call, lapi, lcur, lcalls>>

NextRate ==
    \/ RateTick
    \/ \E w \in 1..RateWorkers, key \in ApiKeys : RateEnter(w, key)
    \/ \E w \in 1..RateWorkers : RateTime(w)
    \/ \E w \in 1..RateWorkers : RateTest(w)
    \/ \E w \in 1..RateWorkers : RateSleep(w)
    \/ \E w \in 1..RateWorkers : RateStore(w)
    \/ \E w \in 1..RateWorkers : RateQuery(w)

SpecRate == InitRate /\ [][NextRate]_vars

\* C31 (as claimed): a variable that the workers both read and write is
\* accessed under mutual exclusion: no two workers are at the same time
\* between their read and their write of the same entry of last_api_call.
C31_SharedStateExclusive ==
    \A v, w \in DOMAIN lpc :
        (v # w /\ lapi[v] = lapi[w]) =>
            ~(lpc[v] \in {"sleep", "store"} /\ lpc[w] \in {"sleep", "store"})

---------------------------------------------------------------------------
(* SpecSubmit: the two pool blocks of main (lines 2459-2471, 2484-2494) as  *)
(* main runs them: the dict comprehension that submits a task for every     *)
(* item, then the as_completed loop that takes one finished future at a     *)
(* time and sleeps after it.                                                *)

SubmitItems == 3
PoolSize    == 2

InitSubmit ==
    /\ umain = "submit" /\ uphase = 1
    /\ \E n \in 1..SubmitItems : ulist = [k \in 1..n |-> k]
    /\ utask = [k \in DOMAIN ulist |-> "new"]
    /\ unb = <<>> /\ ulog = <<>>
    /\ IdleRestU

\* lines 2460-2461, 2485-2486: ex.submit for the next item of the list; the
\* comprehension goes to the next item at once
Submit ==
    /\ umain = "submit"
    /\ \E k \in DOMAIN utask :
        /\ utask[k] = "new"
        /\ \A j \in 1..(k - 1) : utask[j] # "new"
        /\ utask' = [utask EXCEPT ![k] = "queued"]
        /\ ulog' = Append(ulog, <<"submit", uphase, ulist[k]>>)
        /\ umain' = IF k = Len(utask) THEN "wait" ELSE "submit"
    /\ UNCHANGED <<uphase, ulist, unb>>
    /\ UNCHANGED restU

\* a pool thread takes a queued task (max_workers threads, in queue order)
TaskStart(k) ==
    /\ utask[k] = "queued"
    /\ \A j \in 1..(k - 1) : utask[j] # "queued"
    /\ Cardinality({j \in DOMAIN utask : utask[j] = "running"}) < PoolSize
    /\ utask' = [utask EXCEPT ![k] = "running"]
    /\ UNCHANGED <<umain, uphase, ulist, unb, ulog>>
    /\ UNCHANGED restU

\* the task returns its tuple: a success or a failure
TaskFinish(k) ==
    /\ utask[k] = "running"
    /\ \E ok \in BOOLEAN : utask' = [utask EXCEPT ![k] = IF ok THEN "ok" ELSE "failed"]
    /\ UNCHANGED <<umain, uphase, ulist, unb, ulog>>
    /\ UNCHANGED restU

\* lines 2463-2470, 2488-2493: as_completed hands main a finished future
\* and main takes its result
TakeResult(k) ==
    /\ umain = "wait"
    /\ utask[k] \in {"ok", "failed"}
    /\ unb' = IF uphase = 1 /\ utask[k] = "failed" THEN Append(unb, ulist[k]) ELSE unb
    /\ utask' = [utask EXCEPT ![k] = "taken"]
    /\ umain' = "sleep"
    /\ UNCHANGED <<uphase, ulist, ulog>>
    /\ UNCHANGED restU

\* lines 2471, 2494: time.sleep(args.delay), time.sleep(1); then the loop
\* goes on, or the with block ends and, after phase 1, line 2478 starts
\* phase 2 when needs_browser is not empty
SleepAfterResult ==
    /\ umain = "sleep"
    /\ ulog' = Append(ulog, <<"sleep", uphase, 0>>)
    /\ IF \E k \in DOMAIN utask : utask[k] # "taken"
       THEN /\ umain' = "wait"
            /\ UNCHANGED <<uphase, ulist, utask, unb>>
       ELSE IF uphase = 1 /\ unb # <<>>
       THEN /\ umain' = "submit" /\ uphase' = 2
            /\ ulist' = unb
            /\ utask' = [k \in DOMAIN unb |-> "new"]
            /\ UNCHANGED unb
       ELSE /\ umain' = "done"
            /\ UNCHANGED <<uphase, ulist, utask, unb>>
    /\ UNCHANGED restU

NextSubmit ==
    \/ Submit
    \/ \E k \in DOMAIN utask : TaskStart(k)
    \/ \E k \in DOMAIN utask : TaskFinish(k)
    \/ \E k \in DOMAIN utask : TakeResult(k)
    \/ SleepAfterResult

SpecSubmit == InitSubmit /\ [][NextSubmit]_vars

\* C32 (as claimed): between two successive submissions of a phase main
\* sleeps: no two submissions follow each other without a sleep in between.
C32_DelayBetweenSubmissions ==
    \A j \in 1..(Len(ulog) - 1) :
        ~(ulog[j][1] = "submit" /\ ulog[j + 1][1] = "submit" /\ ulog[j][2] = ulog[j + 1][2])

---------------------------------------------------------------------------
(* SpecRange: the range filter of main (lines 2442-2445) on checklists      *)
(* whose row numbers need not be 1..n, with --start and --end.              *)

MaxIndex  == 5
RangeRows == 3

\* the row numbers a checklist can carry, in ascending order
RowNumberings ==
    { s \in UNION { [1..n -> 1..MaxIndex] : n \in 1..RangeRows } :
        \A j, k \in DOMAIN s : j < k => s[j] < s[k] }

\* the checklist file with these rows
RangeText == Concat([k \in DOMAIN grows |-> SRow(grows[k][1], grows[k][2], UrlPdf)])

InitRange ==
    /\ \E s \in RowNumberings, b \in [1..RangeRows -> {<<>>, <<"x">>}] :
          grows = [k \in DOMAIN s |-> <<s[k], b[k]>>]
    /\ gstart \in 1..3
    /\ gend \in 0..MaxIndex
    /\ gout = <<>> /\ gpc = "start"
    /\ IdleRestG

\* lines 2430 and 2442-2445
RangeSelect ==
    /\ gpc = "start"
    /\ LET items == parse_checklist(RangeText) IN
       gout' = <<ToProcess(items, gstart, EndIdx(gend, items))>>
    /\ gpc' = "selected"
    /\ UNCHANGED <<restG, grows, gstart, gend>>

NextRange == RangeSelect

SpecRange == InitRange /\ [][NextRange]_vars

\* the numbers of the rows main is going to process
Selected == {gout[1][k].index : k \in 1..Len(gout[1])}

\* the numbers of the unchecked rows from lo to hi
UncheckedIn(lo, hi) ==
    {grows[k][1] : k \in {j \in DOMAIN grows :
                            grows[j][2] = <<>> /\ lo <= grows[j][1] /\ grows[j][1] <= hi}}

\* C36 (as claimed): the rows processed are the unchecked rows with
\* start <= index <= end, and without --end every unchecked row from start
\* on, whatever numbers the rows carry.
C36_RangeSelection ==
    gpc = "selected" =>
        Selected = UncheckedIn(gstart, IF gend = 0 THEN MaxIndex ELSE gend)

---------------------------------------------------------------------------
(* SpecLock: the three locks (lines 91, 92, 96) and the order in which a    *)
(* phase-1 task takes and leaves them.  A task is the sequence of the       *)
(* `with lock:` entries and exits on its path through process_item_fast;    *)
(* what it does between them takes no lock.                                 *)

LockWorkers == 2

Locks == {"doi_lock", "checklist_lock", "print_lock"}

Acq(l) == <<"acquire", l>>
Rel(l) == <<"release", l>>

\* a thread_print that looks into the registry while it prints
thread_print_registry ==
    <<Acq("print_lock"), Acq("doi_lock"), Rel("doi_lock"), Rel("print_lock")>>

\* lines 102-105
thread_print == <<Acq("print_lock"), Rel("print_lock")>>

\* lines 129-137 when the DOI is registered: the stub, and line 135 prints
\* inside the with block; when it is not, line 137 returns from the block
check_duplicate_locks(found) ==
    <<Acq("doi_lock")>> \o (IF found THEN thread_print ELSE <<>>) \o <<Rel("doi_lock")>>

\* lines 143-145
register_doi_locks == <<Acq("doi_lock"), Rel("doi_lock")>>

\* lines 168-178
update_checklist_locks == <<Acq("checklist_lock"), Rel("checklist_lock")>>

TaskPaths == {"duplicate", "exists", "downloaded", "failed", "no_doi"}

\* the lock operations of process_item_fast on each of its paths: a duplicate
\* (lines 2250-2252), a file that is there (2257-2260), a strategy that
\* succeeded (2263-2366), none that did (2263, 2368), and an item without
\* a DOI, for which check_duplicate and register_doi return before the lock
\* (lines 126, 142)
TaskLocks(path) ==
    CASE path = "duplicate"  -> check_duplicate_locks(TRUE) \o update_checklist_locks
      [] path = "exists"     -> check_duplicate_locks(FALSE) \o update_checklist_locks
                                    \o register_doi_locks
      [] path = "downloaded" -> check_duplicate_locks(FALSE) \o thread_print \o thread_print
                                    \o update_checklist_locks \o register_doi_locks
      [] path = "failed"     -> check_duplicate_locks(FALSE) \o thread_print \o thread_print
      [] path = "no_doi"     -> thread_print \o thread_print \o update_checklist_locks

InitLock ==
    /\ klock = [l \in Locks |-> 0]
    /\ kpath \in [1..LockWorkers -> TaskPaths]
    /\ kprog = [w \in 1..LockWorkers |-> TaskLocks(kpath[w])]
    /\ IdleRestK

\* `with lock:` is entered: the thread has the lock when it is free
LockAcquire(w) ==
    /\ kprog[w] # <<>>
    /\ Head(kprog[w])[1] = "acquire"
    /\ klock[Head(kprog[w])[2]] = 0
    /\ klock' = [klock EXCEPT ![Head(kprog[w])[2]] = w]
    /\ kprog' = [kprog EXCEPT ![w] = Tail(@)]
    /\ UNCHANGED <<restK, kpath>>

\* the with block is left
LockRelease(w) ==
    /\ kprog[w] # <<>>
    /\ Head(kprog[w])[1] = "release"
    /\ klock' = [klock EXCEPT ![Head(kprog[w])[2]] = 0]
    /\ kprog' = [kprog EXCEPT ![w] = Tail(@)]
    /\ UNCHANGED <<restK, kpath>>

LockStep(w) == LockAcquire(w) \/ LockRelease(w)

NextLock == \E w \in 1..LockWorkers : LockStep(w)

SpecLock == InitLock /\ [][NextLock]_vars

\* every thread that can take a step is scheduled in the end
SpecLockFair == SpecLock /\ \A w \in 1..LockWorkers : WF_vars(LockStep(w))

\* worker w is at `with l:` and has not got the lock
Requests(w, l) == kprog[w] # <<>> /\ Head(kprog[w]) = Acq(l)

\* the locks worker w holds
Holds(w) == {l \in Locks : klock[l] = w}

\* C39: a thread holds two locks only as doi_lock then print_lock; a thread
\* that holds print_lock requests no lock; checklist_lock and doi_lock are
\* never held by one thread together; and every thread that requests a lock
\* gets it in the end.
C39_NoDeadlock ==
    /\ [](\A w \in 1..LockWorkers :
            /\ Cardinality(Holds(w)) <= 2
            /\ Cardinality(Holds(w)) = 2 => Holds(w) = {"doi_lock", "print_lock"}
            /\ "print_lock" \in Holds(w) => \A l \in Locks : ~Requests(w, l)
            /\ ~({"doi_lock", "checklist_lock"} \subseteq Holds(w))
            /\ "checklist_lock" \in Holds(w) => \A l \in Locks : ~Requests(w, l))
    /\ \A w \in 1..LockWorkers : \A l \in Locks : Requests(w, l) ~> (klock[l] = w)

\* witness: worker 1 is inside check_duplicate with doi_lock and waits for
\* print_lock, which worker 2 holds; worker 2's next lock is doi_lock
C39_Witness ==
    /\ klock["doi_lock"] = 1 /\ klock["print_lock"] = 2
    /\ Requests(1, "print_lock")
    /\ kpath[2] = "downloaded"

----------------------------------------------------------------------------
(* SpecViewer: a vision candidate with a PDF href, lines 2003-2116 of       *)
(* try_vision_analysis, and the viewer handling of                          *)
(* try_download_from_new_tab, lines 1532-1678.                              *)

\* download_selectors has ten entries (lines 1576-1590); the model tries
\* the first MaxSelectors of them
MaxSelectors == 2

\* what the handling can see of the page: '.pdf' in its final URL, 'pdf' in
\* its title, an embedded PDF element, and what document.contentType gives
\* (a PDF type, another type, or an exception on a URL with or without
\* 'viewer' / 'watermark')
Pages ==
    [pdfurl : BOOLEAN, pdftitle : BOOLEAN, embed : BOOLEAN,
     ctype : {"pdf", "html", "raises_viewer", "raises"}]

\* lines 1545-1570: is_pdf_viewer
IsPdfViewer(p) ==
    /\ p.pdftitle \/ p.pdfurl
    /\ \/ p.embed
       \/ p.pdfurl /\ p.ctype \in {"pdf", "raises_viewer"}

InitViewer ==
    /\ npage \in Pages
    /\ npc = "navigated"
    /\ nsel = 0
    /\ nlog = <<>>
    /\ nres = <<>>
    /\ IdleRestN

\* lines 2048-2070: the download that the navigation itself triggered, and
\* the error page
NavDownload ==
    /\ npc = "navigated"
    /\ \E got \in {"none", "valid", "rejected", "error_page"} :
        CASE got = "valid" -> npc' = "done" /\ nres' = <<TRUE, "navigation">>
          [] got = "error_page" -> npc' = "next_candidate" /\ UNCHANGED nres
          [] OTHER -> npc' = "early" /\ UNCHANGED nres
    /\ UNCHANGED <<restN, npage, nsel, nlog>>

\* lines 2072-2100: '.pdf' in the final URL, the keyboard save is pressed
EarlyKeyboard ==
    /\ npc = "early"
    /\ IF npage.pdfurl
       THEN /\ nlog' = Append(nlog, <<"keyboard", 2076>>)
            /\ \E saved \in BOOLEAN :
                IF saved
                THEN npc' = "done" /\ nres' = <<TRUE, "keyboard">>
                ELSE npc' = "detect" /\ UNCHANGED nres
       ELSE /\ npc' = "detect"
            /\ UNCHANGED <<nlog, nres>>
    /\ UNCHANGED <<restN, npage, nsel>>

\* lines 2106 and 1534-1573: try_download_from_new_tab is entered and
\* decides whether the page is a PDF viewer
Detect ==
    /\ npc = "detect"
    /\ IF IsPdfViewer(npage)
       THEN npc' = "selectors" /\ nsel' = 1
       ELSE npc' = "links" /\ UNCHANGED nsel
    /\ UNCHANGED <<restN, npage, nlog, nres>>

\* lines 1592-1611: one selector of the download control is queried, and
\* the control is clicked when it is there and visible
DownloadControl ==
    /\ npc = "selectors"
    /\ nlog' = Append(nlog, <<"download_control", nsel>>)
    /\ \E got \in {"absent", "valid", "rejected"} :
        IF got = "valid"
        THEN /\ npc' = "done"
             /\ nres' = <<TRUE, "Browser+Vision+PDFViewer">>
             /\ UNCHANGED nsel
        ELSE /\ npc' = IF nsel = MaxSelectors THEN "keyboard" ELSE "selectors"
             /\ nsel' = nsel + 1
             /\ UNCHANGED nres
    /\ UNCHANGED <<restN, npage>>

\* lines 1613-1653: the keyboard save of try_download_from_new_tab
ViewerKeyboard ==
    /\ npc = "keyboard"
    /\ nlog' = Append(nlog, <<"keyboard", 1634>>)
    /\ \E saved \in BOOLEAN :
        IF saved
        THEN npc' = "done" /\ nres' = <<TRUE, "Browser+Vision+Keyboard">>
        ELSE npc' = "extract" /\ UNCHANGED nres
    /\ UNCHANGED <<restN, npage, nsel>>

\* lines 1655-1678: the embedded URL is read and given to direct_download
ExtractUrl ==
    /\ npc = "extract"
    /\ nlog' = Append(nlog, <<"extract", 1659>>)
    /\ \E fetched \in BOOLEAN :
        IF fetched
        THEN npc' = "done" /\ nres' = <<TRUE, "Browser+Vision+PDFViewerURL">>
        ELSE npc' = "links" /\ UNCHANGED nres
    /\ UNCHANGED <<restN, npage, nsel>>

NextViewer ==
    \/ NavDownload \/ EarlyKeyboard \/ Detect
    \/ DownloadControl \/ ViewerKeyboard \/ ExtractUrl

SpecViewer == InitViewer /\ [][NextViewer]_vars

\* the order of the steps inside try_download_from_new_tab alone
OrderInNewTab ==
    \A k \in 1..Len(nlog) :
        /\ nlog[k] = <<"keyboard", 1634>> =>
              \A s \in 1..MaxSelectors :
                  \E j \in 1..(k - 1) : nlog[j] = <<"download_control", s>>
        /\ nlog[k][1] = "extract" => k > 1 /\ nlog[k - 1] = <<"keyboard", 1634>>

\* C35 (as claimed): on a PDF-viewer page the keyboard save is pressed only
\* after the download control has been looked for, and the embedded URL is
\* extracted only after the keyboard save.
C35_ViewerRecoveryOrder ==
    IsPdfViewer(npage) => \A k \in 1..Len(nlog) :
        /\ nlog[k][1] = "keyboard" =>
              \E j \in 1..(k - 1) : nlog[j][1] = "download_control"
        /\ nlog[k][1] = "extract" =>
              \E j \in 1..(k - 1) : nlog[j][1] = "keyboard"

=========================================================================
